---- MODULE Spec2Model ----
(***************************************************************************)
(* The two dashboards and their forecasting routines:                      *)
(*   load_data, get_aqi_category, forecast_simple  (src/streamlitaap.py)   *)
(*       daily AQI + temperature                                           *)
(*   load_data, forecast_weather                   (src/webapp.py)         *)
(*       hourly temperature / humidity / wind speed                        *)
(* and the feature pipeline that fetches the history:                      *)
(*   fetch_open_meteo_chunk, run_feature_pipeline                          *)
(*                                       (src/test_aqi_ds10pearls.py)      *)
(*                                                                         *)
(* Numbers are exact rationals <<n, d>> (d > 0, lowest terms); the float   *)
(* NaN that pandas uses for a missing value is <<0, 0>>.  A standard       *)
(* deviation is held as its square (the sample variance): the square root  *)
(* is not rational, and every use of it below compares squares.           *)
(***************************************************************************)
EXTENDS Integers, Sequences, FiniteSets, TLC

VARIABLES
    now,        \* datetime.now(), in days since a Monday 00:00
    t0,         \* the clock when the running call was made
    pc,         \* where the script stands: start, halted, idle, pre, loop, done
    fn,         \* the function called: simple (forecast_simple), weather
    df,         \* the caller's history table, as the caller sees it
    days,       \* the call's horizon
    day,        \* the loop variable of "for day in range(1, days + 1)"
    stats,      \* the locals computed before the loop
    forecasts,  \* the list the loop appends to
    result,     \* the value returned
    errors,     \* the st.error messages of the call
    exc,        \* the exception the call caught, if any
    jit,        \* the draws np.random.uniform returned, one pair per record
    seed,       \* the seed of the np.random.normal stream
    app,        \* the dashboard running: aqi (streamlitaap.py), weather (webapp.py)
    file,       \* the CSV file load_data read
    loaded,     \* what load_data returned, the module-level df
    screen,     \* what the module body has rendered, in order
    used,       \* per iteration of the loop, the dow key and hr_off values it used
    cards,      \* the categories of the forecast cards shown
    prev,       \* a completed call remembered for comparison, if any
    ppc,        \* where run_feature_pipeline stands: idle, loop, returned
    start_date, \* the module's start_date
    end_date,   \* the module's end_date
    current,    \* the loop variable of run_feature_pipeline
    frames,     \* the list of the chunks' frames
    chunks,     \* the calls of fetch_open_meteo_chunk made, with what they returned
    out,        \* the parquet file the pipeline writes
    fpc,        \* where a lone call of fetch_open_meteo_chunk stands
    args,       \* its arguments start_dt and end_dt
    w_resp,     \* the weather response it got
    a_resp,     \* the air-quality response it got
    fetched     \* the frame it returned

dvars == <<now, t0, pc, fn, df, days, day, stats, forecasts, result, errors,
           exc, jit, seed, app, file, loaded, screen, used, cards, prev>>

pvars == <<ppc, start_date, end_date, current, frames, chunks, out, fpc, args,
           w_resp, a_resp, fetched>>

vars == <<dvars, pvars>>

(***************************************************************************)
(* Bounds of the model.                                                    *)
(***************************************************************************)
MaxDays == 2
MaxClock == 1

(***************************************************************************)
(* Float arithmetic, as exact rationals with NaN.                          *)
(***************************************************************************)
NaN == <<0, 0>>

IsNaN(a) == a[2] = 0

Abs(n) == IF n < 0 THEN -n ELSE n

RECURSIVE GCD(_, _)
GCD(a, b) == IF b = 0 THEN a ELSE GCD(b, a % b)

Norm(n, d) ==
    IF d = 0 THEN NaN
    ELSE LET g == GCD(Abs(n), Abs(d))
             s == IF d < 0 THEN -1 ELSE 1
         IN  <<(s * n) \div g, (s * d) \div g>>

Num(k) == <<k, 1>>

Add(a, b) ==
    IF IsNaN(a) \/ IsNaN(b) THEN NaN
    ELSE LET g == GCD(a[2], b[2])
         IN  Norm(a[1] * (b[2] \div g) + b[1] * (a[2] \div g), (a[2] \div g) * b[2])

Neg(a) == IF IsNaN(a) THEN NaN ELSE <<-a[1], a[2]>>

Sub(a, b) == Add(a, Neg(b))

Mul(a, b) ==
    IF IsNaN(a) \/ IsNaN(b) THEN NaN
    ELSE LET g1 == GCD(Abs(a[1]), b[2])
             g2 == GCD(Abs(b[1]), a[2])
         IN  Norm((a[1] \div g1) * (b[1] \div g2), (a[2] \div g2) * (b[2] \div g1))

\* a / b on floats.  0/0 is NaN (numpy warns, it does not raise).  x/0 with
\* x # 0 would be an infinity; the only division by a data-dependent value is
\* calc_trend's, whose numerator is 0 whenever its denominator is.
Div(a, b) ==
    IF IsNaN(a) \/ IsNaN(b) \/ b[1] = 0 THEN NaN
    ELSE Mul(a, Norm(b[2], b[1]))

\* Comparisons with NaN are false.
Less(a, b) == ~IsNaN(a) /\ ~IsNaN(b) /\ a[1] * b[2] < b[1] * a[2]

Leq(a, b) == ~IsNaN(a) /\ ~IsNaN(b) /\ a[1] * b[2] <= b[1] * a[2]

\* np.clip(x, lo, hi) = minimum(maximum(x, lo), hi); NaN propagates.
Clip(x, lo, hi) ==
    IF IsNaN(x) THEN NaN
    ELSE IF Less(x, Num(lo)) THEN Num(lo)
    ELSE IF Less(Num(hi), x) THEN Num(hi)
    ELSE x

InRange(x, lo, hi) == Leq(Num(lo), x) /\ Leq(x, Num(hi))

(***************************************************************************)
(* The AQI history table of streamlitaap.py: columns timestamp, aqi, temp. *)
(* It is held run-length encoded, a sequence of runs [ts, n, aqi, temp]:   *)
(* n consecutive rows with timestamp ts (hours since a Monday 00:00) that   *)
(* carry the same values.  The encoding lets the trailing windows keep the *)
(* sizes the code gives them.  The weather table of webapp.py is held the  *)
(* same way, with columns temp_C, humidity_percent, wind_speed_mps.        *)
(***************************************************************************)
RecentRows == 336
Last3Rows == 72

RECURSIVE Rows(_)
Rows(t) == IF t = <<>> THEN 0 ELSE Head(t).n + Rows(Tail(t))

\* DataFrame.tail(k): the last k rows (all of them when there are fewer).
RECURSIVE TailRows(_, _)
TailRows(t, k) ==
    IF t = <<>> \/ k <= 0 THEN <<>>
    ELSE LET last == t[Len(t)]
             init == SubSeq(t, 1, Len(t) - 1)
         IN  IF last.n >= k THEN <<[last EXCEPT !.n = k]>>
             ELSE TailRows(init, k - last.n) \o <<last>>

\* df.sort_values('timestamp'): ascending by timestamp.
RECURSIVE InsertByTs(_, _)
InsertByTs(r, t) ==
    IF t = <<>> THEN <<r>>
    ELSE IF r.ts < Head(t).ts THEN <<r>> \o t
    ELSE <<Head(t)>> \o InsertByTs(r, Tail(t))

RECURSIVE SortByTimestamp(_)
SortByTimestamp(t) ==
    IF t = <<>> THEN <<>>
    ELSE InsertByTs(t[Len(t)], SortByTimestamp(SubSeq(t, 1, Len(t) - 1)))

\* timestamp.dt.dayofweek, Monday = 0, of a timestamp in hours.
DayOfWeek(ts) == (ts \div 24) % 7

\* The rows of one groupby('dow') group.
RECURSIVE GroupRows(_, _)
GroupRows(t, dow) ==
    IF t = <<>> THEN <<>>
    ELSE IF DayOfWeek(Head(t).ts) = dow THEN <<Head(t)>> \o GroupRows(Tail(t), dow)
    ELSE GroupRows(Tail(t), dow)

DowKeys(t) == {DayOfWeek(t[i].ts) : i \in 1..Len(t)}

\* The rows whose value in column c is not missing (pandas skips NaN).
RECURSIVE Valid(_, _)
Valid(t, c) ==
    IF t = <<>> THEN <<>>
    ELSE IF IsNaN(Head(t)[c]) THEN Valid(Tail(t), c)
    ELSE <<Head(t)>> \o Valid(Tail(t), c)

RECURSIVE SumCol(_, _)
SumCol(t, c) ==
    IF t = <<>> THEN Num(0)
    ELSE Add(Mul(Num(Head(t).n), Head(t)[c]), SumCol(Tail(t), c))

\* Series.mean(): the mean of the non-missing values, NaN when there is none.
Mean(t, c) ==
    LET v == Valid(t, c)
    IN  IF Rows(v) = 0 THEN NaN ELSE Div(SumCol(v, c), Num(Rows(v)))

RECURSIVE SumSqDev(_, _, _)
SumSqDev(t, c, m) ==
    IF t = <<>> THEN Num(0)
    ELSE LET dv == Sub(Head(t)[c], m)
         IN  Add(Mul(Num(Head(t).n), Mul(dv, dv)), SumSqDev(Tail(t), c, m))

\* Series.std() squared: the sample variance (ddof = 1) of the non-missing
\* values, NaN when there are fewer than two.
StdSq(t, c) ==
    LET v == Valid(t, c)
    IN  IF Rows(v) < 2 THEN NaN
        ELSE Div(SumSqDev(v, c, Mean(v, c)), Num(Rows(v) - 1))

(***************************************************************************)
(* forecast_simple, src/streamlitaap.py lines 84-133.                      *)
(***************************************************************************)
None == "None"

\* The histories the dashboard is run on: short tables over every kind of
\* value (missing, below, inside and above the clip ranges), and long ones
\* that fill the 72-row and 336-row windows.
AqiVals ==
    { <<Num(5), Num(10)>>, <<Num(100), Num(30)>>, <<Num(600), Num(50)>>,
      <<NaN, Num(30)>>, <<Num(100), NaN>> }

AqiRun(ts, n, v) == [ts |-> ts, n |-> n, aqi |-> v[1], temp |-> v[2]]

AqiTables ==
    { <<AqiRun(24, n, v)>> : n \in {1, 2}, v \in AqiVals }
    \cup { <<AqiRun(24, 2, v), AqiRun(ts, 1, w)>> :
             v \in AqiVals, ts \in {48, 192}, w \in AqiVals }
    \cup { <<AqiRun(24, a, <<Num(20), Num(30)>>), AqiRun(192, 72, w)>> :
             a \in {1, 264, 265},
             w \in { <<Num(30), Num(30)>>, <<NaN, Num(16)>> } }

\* Lines 87-101: the statistics computed once, before the loop.
SimpleStats(t) ==
    LET df_sorted == SortByTimestamp(t)
        recent == TailRows(df_sorted, RecentRows)
        recent_aqi == Mean(recent, "aqi")
        recent_aqi_last3 == Mean(TailRows(recent, Last3Rows), "aqi")
    IN  [ daily_aqi |-> [d \in DowKeys(df_sorted) |->
                            [mean |-> Mean(GroupRows(df_sorted, d), "aqi"),
                             std |-> StdSq(GroupRows(df_sorted, d), "aqi")]],
          daily_temp |-> [d \in DowKeys(df_sorted) |->
                            Mean(GroupRows(df_sorted, d), "temp")],
          recent |-> recent,
          recent_aqi |-> recent_aqi,
          recent_temp |-> Mean(recent, "temp"),
          aqi_trend |-> Sub(recent_aqi_last3, recent_aqi) ]

\* A variant of FDate that forgets the offset of the forecast day.
FDateToday(clock, d) == clock

\* fdate = datetime.now() + timedelta(days=day), the clock counted in days
\* since a Monday; fdate.weekday() is Monday = 0.
FDate(clock, d) == clock + d

Weekday(date) == date % 7

\* Lines 110-115: the day-of-week's mean, or the recent window's.
BaseAqi(st, dow) ==
    IF dow \in DOMAIN st.daily_aqi THEN st.daily_aqi[dow].mean ELSE st.recent_aqi

AqiStd(st, dow) ==
    IF dow \in DOMAIN st.daily_aqi THEN st.daily_aqi[dow].std
    ELSE StdSq(st.recent, "aqi")

\* Line 117: daily_temp.get(dow, recent_temp).
BaseTemp(st, dow) ==
    IF dow \in DOMAIN st.daily_temp THEN st.daily_temp[dow] ELSE st.recent_temp

\* np.random.uniform(-s*0.2, s*0.2) with s given by its square sq: a value
\* in [-0.2 s, 0.2 s), picked here among a few candidates.
AqiJitters == {Num(-2), Num(0), <<1, 2>>}

UniformAqi(sq) ==
    { j \in AqiJitters :
        LET j2 == Mul(Num(25), Mul(j, j))
        IN  \/ j[1] = 0
            \/ j[1] < 0 /\ Leq(j2, sq)
            \/ j[1] > 0 /\ Less(j2, sq) }

\* np.random.uniform(-1, 1).
TempJitters == {Num(-1), Num(0)}

\* A variant of PredictedAqi that leaves out the 0.3 damping of the trend.
PredictedAqiUndamped(base_aqi, aqi_trend, d, j) ==
    Add(Add(base_aqi, Mul(aqi_trend, Num(d))), j)

\* Line 120.
PredictedAqi(base_aqi, aqi_trend, d, j) ==
    Add(Add(base_aqi, Mul(Mul(aqi_trend, Num(d)), <<3, 10>>)), j)

\* Line 121.
PredictedTemp(base_temp, j) == Add(base_temp, j)

AqiLo == 10
AqiHi == 500
TempLo == 15
TempHi == 45

\* Lines 123-128.
SimpleRecord(d, predicted_aqi, predicted_temp, fdate) ==
    [ day |-> d,
      aqi |-> Clip(predicted_aqi, AqiLo, AqiHi),
      temp |-> Clip(predicted_temp, TempLo, TempHi),
      date |-> fdate ]

(***************************************************************************)
(* forecast_weather, src/webapp.py lines 68-134.                           *)
(***************************************************************************)
WRun(ts, n, v) ==
    [ts |-> ts, n |-> n, temp_C |-> v[1], humidity_percent |-> v[2],
     wind_speed_mps |-> v[3]]

WVals ==
    { <<Num(30), Num(50), Num(5)>>, <<Num(50), Num(110), Num(30)>>,
      <<Num(10), Num(10), Num(0)>>, <<NaN, NaN, NaN>>,
      <<Num(30), NaN, Num(5)>> }

\* k hourly rows from timestamp ts on, each quantity a + b * i on row i.
HourlyTable(ts, k, a, b) ==
    [i \in 1..k |->
        WRun(ts + i - 1, 1,
             <<Add(a[1], Mul(b[1], Num(i - 1))),
               Add(a[2], Mul(b[2], Num(i - 1))),
               Add(a[3], Mul(b[3], Num(i - 1)))>>)]

WeatherTables ==
    { <<WRun(24, n, v)>> : n \in {1, 2}, v \in WVals }
    \cup { <<WRun(24, 1, v), WRun(ts, 1, w)>> :
             v \in { <<Num(30), Num(50), Num(5)>>, <<NaN, NaN, NaN>> },
             ts \in {25, 192, 193}, w \in WVals }
    \cup { HourlyTable(24, 25, a, <<Num(0), Num(0), Num(0)>>) :
             a \in { <<Num(30), Num(50), Num(5)>>, <<Num(50), Num(10), Num(30)>> } }
    \cup { HourlyTable(24, 26, <<Num(20), Num(90), Num(3)>>,
                       <<<<1, 2>>, Num(-1), <<-1, 10>>>>) }
    \cup { <<WRun(24, 1, <<Num(20), Num(50), Num(5)>>),
             WRun(30, 1, <<NaN, Num(40), Num(6)>>),
             WRun(48, 1, <<Num(26), Num(60), NaN>>)>> }

\* timestamp.dt.hour.
Hour(ts) == ts % 24

HourKeys(t) == {Hour(t[i].ts) : i \in 1..Len(t)}

\* The rows of one groupby('hour') group.
RECURSIVE GroupHour(_, _)
GroupHour(t, h) ==
    IF t = <<>> THEN <<>>
    ELSE IF Hour(Head(t).ts) = h THEN <<Head(t)>> \o GroupHour(Tail(t), h)
    ELSE GroupHour(Tail(t), h)

\* df.groupby('hour')[c].mean() and df.groupby('dow')[c].mean().
HourlyMeans(t, c) == [h \in HourKeys(t) |-> Mean(GroupHour(t, h), c)]

WeeklyMeans(t, c) == [d \in DowKeys(t) |-> Mean(GroupRows(t, d), c)]

\* Series.mean() of a groupby result: over its non-missing group means.
RECURSIVE SumOver(_, _)
SumOver(f, keys) ==
    IF keys = {} THEN Num(0)
    ELSE LET k == CHOOSE x \in keys : TRUE
         IN  Add(f[k], SumOver(f, keys \ {k}))

SeriesMean(f) ==
    LET keys == {k \in DOMAIN f : ~IsNaN(f[k])}
    IN  IF keys = {} THEN NaN ELSE Div(SumOver(f, keys), Num(Cardinality(keys)))

\* Series.get(key, default).
Get(f, key, default) == IF key \in DOMAIN f THEN f[key] ELSE default

MaxTs(t) == CHOOSE m \in {t[i].ts : i \in 1..Len(t)} : \A i \in 1..Len(t) : t[i].ts <= m

MinTs(t) == CHOOSE m \in {t[i].ts : i \in 1..Len(t)} : \A i \in 1..Len(t) : m <= t[i].ts

WindowDays == 7
BaseRows == 24

\* A variant of Since that leaves out the rows exactly at the bound.
RECURSIVE SinceStrict(_, _)
SinceStrict(t, from) ==
    IF t = <<>> THEN <<>>
    ELSE IF Head(t).ts > from THEN <<Head(t)>> \o SinceStrict(Tail(t), from)
    ELSE SinceStrict(Tail(t), from)

\* Line 78: the rows at or after last_timestamp - 7 days.
RECURSIVE Since(_, _)
Since(t, from) ==
    IF t = <<>> THEN <<>>
    ELSE IF Head(t).ts >= from THEN <<Head(t)>> \o Since(Tail(t), from)
    ELSE Since(Tail(t), from)

Recent(t) == Since(t, MaxTs(t) - WindowDays * 24)

RECURSIVE SumX(_, _)
SumX(t, tmin) ==
    IF t = <<>> THEN 0 ELSE Head(t).n * (Head(t).ts - tmin) + SumX(Tail(t), tmin)

RECURSIVE SumXY(_, _, _, _, _)
SumXY(t, c, tmin, xm, ym) ==
    IF t = <<>> THEN Num(0)
    ELSE Add(Mul(Num(Head(t).n),
                 Mul(Sub(Num(Head(t).ts - tmin), xm), Sub(Head(t)[c], ym))),
             SumXY(Tail(t), c, tmin, xm, ym))

RECURSIVE SumXX(_, _, _)
SumXX(t, tmin, xm) ==
    IF t = <<>> THEN Num(0)
    ELSE LET dx == Sub(Num(Head(t).ts - tmin), xm)
         IN  Add(Mul(Num(Head(t).n), Mul(dx, dx)), SumXX(Tail(t), tmin, xm))

\* A variant of TooFew that lets a single sample through to the division.
TooFewOffByOne(n) == n < 1

\* Line 87: the guard of the degenerate case.
TooFew(n) == n < 2

\* A variant of calc_trend that centres x on the mean over all rows of the
\* window, the ones whose value is missing included.
calc_trend_unmasked(data, col) ==
    LET tmin == MinTs(data)
        v == Valid(data, col)
        xm == Div(Num(SumX(data, tmin)), Num(Rows(data)))
        ym == Mean(v, col)
    IN  IF TooFew(Rows(v)) THEN Num(0)
        ELSE Div(SumXY(v, col, tmin, xm, ym), SumXX(v, tmin, xm))

\* Lines 80-90.  hrs counts from the window's first timestamp, missing
\* values included; the mask then drops the rows whose value is missing.
calc_trend(data, col) ==
    LET tmin == MinTs(data)
        v == Valid(data, col)
        xm == Div(Num(SumX(v, tmin)), Num(Rows(v)))
        ym == Mean(v, col)
    IN  IF TooFew(Rows(v)) THEN Num(0)
        ELSE Div(SumXY(v, col, tmin, xm, ym), SumXX(v, tmin, xm))

\* Lines 70-105: what is computed once, before the loop.
WeatherStats(t) ==
    LET df_sorted == SortByTimestamp(t)
        recent == Recent(df_sorted)
    IN  [ hourly_temp |-> HourlyMeans(df_sorted, "temp_C"),
          hourly_humidity |-> HourlyMeans(df_sorted, "humidity_percent"),
          hourly_wind |-> HourlyMeans(df_sorted, "wind_speed_mps"),
          recent |-> recent,
          temp_slope |-> calc_trend(recent, "temp_C"),
          hum_slope |-> calc_trend(recent, "humidity_percent"),
          wind_slope |-> calc_trend(recent, "wind_speed_mps"),
          base_temp |-> Mean(TailRows(recent, BaseRows), "temp_C"),
          base_hum |-> Mean(TailRows(recent, BaseRows), "humidity_percent"),
          base_wind |-> Mean(TailRows(recent, BaseRows), "wind_speed_mps"),
          weekly_temp |-> WeeklyMeans(df_sorted, "temp_C"),
          weekly_hum |-> WeeklyMeans(df_sorted, "humidity_percent"),
          last_hrs |-> MaxTs(recent) - MinTs(recent) ]

\* np.random.normal(0, sigma): the stream of draws of a seeded generator.
\* Seed 0 is the stub that returns 0 on every draw.
Seeds == {0, 1, 2}

Normal(sd, q, d, hr) ==
    IF sd = 0 THEN Num(0)
    ELSE IF sd = 1 THEN (IF hr % 2 = 0 THEN Num(1) ELSE <<-1, 2>>)
    ELSE Num(-3)

\* A variant of HourRange that runs one hour too far.
HourRangeOneMore == [i \in 1..25 |-> i - 1]

\* range(24), in loop order.
HourRange == [i \in 1..24 |-> i - 1]

HumLo == 20
HumHi == 100
WindLo == 0
WindHi == 25

\* A variant of HrOff that leaves a day's gap before the first prediction.
HrOffGap(last_hrs, d, hr) == last_hrs + d * 24 + hr

\* Line 116.
HrOff(last_hrs, d, hr) == last_hrs + (d - 1) * 24 + hr

\* A variant of Seasonal that does not centre the seasonal mean.
SeasonalUncentred(means, key, base) == Get(means, key, base)

\* Lines 112-113 and 117-119: a seasonal mean as a deviation from the mean of
\* the seasonal means, the baseline standing in for a key never observed.
Seasonal(means, key, base) == Sub(Get(means, key, base), SeriesMean(means))

\* A variant of Pred that leaves the trend out.
PredNoTrend(base, seas, weekly, slope, hr_off, noise) ==
    Add(Add(Add(base, seas), weekly), noise)

\* Lines 121-123: the unclipped prediction of one quantity.
Pred(base, seas, weekly, slope, hr_off, noise) ==
    Add(Add(Add(Add(base, seas), weekly), Mul(slope, Num(hr_off))), noise)

PredT(st, dow, d, hr, sd) ==
    Pred(st.base_temp, Seasonal(st.hourly_temp, hr, st.base_temp),
         Seasonal(st.weekly_temp, dow, st.base_temp), st.temp_slope,
         HrOff(st.last_hrs, d, hr), Normal(sd, "t", d, hr))

PredH(st, dow, d, hr, sd) ==
    Pred(st.base_hum, Seasonal(st.hourly_humidity, hr, st.base_hum),
         Seasonal(st.weekly_hum, dow, st.base_hum), st.hum_slope,
         HrOff(st.last_hrs, d, hr), Normal(sd, "h", d, hr))

PredW(st, d, hr, sd) ==
    Pred(st.base_wind, Seasonal(st.hourly_wind, hr, st.base_wind), Num(0),
         st.wind_slope, HrOff(st.last_hrs, d, hr), Normal(sd, "w", d, hr))

\* Lines 108-129: the record of one forecast day.
WeatherDay(st, clock, d, sd) ==
    LET dow == Weekday(FDate(clock, d))
    IN  [ day |-> d,
          temps |-> [i \in DOMAIN HourRange |->
                       Clip(PredT(st, dow, d, HourRange[i], sd), TempLo, TempHi)],
          humidity |-> [i \in DOMAIN HourRange |->
                       Clip(PredH(st, dow, d, HourRange[i], sd), HumLo, HumHi)],
          wind |-> [i \in DOMAIN HourRange |->
                       Clip(PredW(st, d, HourRange[i], sd), WindLo, WindHi)] ]

\* Line 131: the trend summary.
Trends(st) ==
    [temp_trend |-> st.temp_slope, humidity_trend |-> st.hum_slope,
     wind_trend |-> st.wind_slope]

\* Lines 132-134: what the except branch returns.
WeatherFailure(partial) == <<None, None>>

\* A variant of DayRange that runs one day too far.
DayRangeOneMore(n) == 1..(n + 1)

\* range(1, days + 1).
DayRange(n) == 1..n

\* A variant of SimpleFailure that hands back what the loop had built.
SimpleFailurePartial(partial) == partial

\* Lines 131-133: what the except branch returns.
SimpleFailure(partial) == None

(***************************************************************************)
(* load_data, src/streamlitaap.py lines 71-82, src/webapp.py lines 55-66.  *)
(* A CSV file is absent (pd.read_csv raises) or a header and rows.  A      *)
(* column name is <<l, text, r>>: text with l blanks before it and r after *)
(* it.  A timestamp cell is <<"stamp", ts>> (text pd.to_datetime parses,   *)
(* to hour ts), <<"junk", 0>> (text it cannot parse) or <<"empty", 0>>.    *)
(* The rows of a file are runs, as the rows of a table are.                *)
(***************************************************************************)
Name(text) == <<0, text, 0>>

\* A variant of Strip that leaves the blanks in place.
StripKept(name) == name

\* str.strip(): the blanks around the text are removed.
Strip(name) == <<0, name[2], 0>>

StripAll(cols) == [i \in DOMAIN cols |-> Strip(cols[i])]

\* df['timestamp'] finds the column of exactly that name, or raises KeyError.
HasColumn(cols, text) == \E i \in DOMAIN cols : cols[i] = Name(text)

NaT == <<"NaT", 0>>

\* pd.to_datetime(..., errors='coerce'): NaT for what does not parse.
ToDatetime(cell) == IF cell[1] = "stamp" THEN cell ELSE NaT

\* The table row of a file row whose timestamp parsed.
Parsed(raw) ==
    [k \in (DOMAIN raw \ {"timestamp"}) \cup {"ts"} |->
        IF k = "ts" THEN ToDatetime(raw.timestamp)[2] ELSE raw[k]]

\* df.dropna(subset=['timestamp']) after the conversion.
RECURSIVE DropNaT(_)
DropNaT(rows) ==
    IF rows = <<>> THEN <<>>
    ELSE IF ToDatetime(Head(rows).timestamp) = NaT THEN DropNaT(Tail(rows))
    ELSE <<Parsed(Head(rows))>> \o DropNaT(Tail(rows))

NoFrame == [none |-> TRUE, columns |-> <<>>, rows |-> <<>>]

\* The try block raises when the file cannot be read or has no timestamp
\* column once the names are stripped.
LoadRaises(f) == ~f.exists \/ ~HasColumn(StripAll(f.cols), "timestamp")

\* What load_data returns: None (NoFrame) from the except branch, else the
\* frame with stripped names, parsed rows only, ascending by timestamp.
load_data(f) ==
    IF LoadRaises(f) THEN NoFrame
    ELSE [none |-> FALSE, columns |-> StripAll(f.cols),
          rows |-> SortByTimestamp(DropNaT(f.rows))]

\* The st.error message of load_data's except branch.
LoadErrors(f) == IF LoadRaises(f) THEN <<"Error loading data">> ELSE <<>>

Dashboard == <<"header", "metrics", "tabs", "forecast button">>

\* A variant of Render that tests only for None.
RenderNotNone(d) ==
    IF ~d.none THEN Dashboard ELSE <<"Could not load data">>

\* The module body from line 138 on: the dashboard when the table is there
\* and has rows, else the one error of the last two lines.
Render(d) ==
    IF ~d.none /\ Rows(d.rows) > 0 THEN Dashboard ELSE <<"Could not load data">>

\* The files the dashboards are started on: one per history above, a few
\* with padded names, rows out of order and timestamps that do not parse,
\* and the ones that leave nothing to show.
AqiHeader == <<Name("timestamp"), Name("aqi"), Name("temp")>>

WeatherHeader ==
    <<Name("timestamp"), Name("temp_C"), Name("humidity_percent"),
      Name("wind_speed_mps")>>

Padded(cols) == [i \in DOMAIN cols |-> <<1, cols[i][2], i % 2>>]

RawRun(r) ==
    [k \in (DOMAIN r \ {"ts"}) \cup {"timestamp"} |->
        IF k = "timestamp" THEN <<"stamp", r.ts>> ELSE r[k]]

Unparsed(r, kind) == [RawRun(r) EXCEPT !.timestamp = <<kind, 0>>]

CsvOf(cols, t) ==
    [exists |-> TRUE, cols |-> cols, rows |-> [i \in DOMAIN t |-> RawRun(t[i])]]

\* The two runs of t in reverse order, among rows that do not parse.
Messy(cols, t) ==
    [exists |-> TRUE, cols |-> Padded(cols),
     rows |-> <<Unparsed(t[2], "junk"), RawRun(t[2]), Unparsed(t[1], "empty"),
                RawRun(t[1])>>]

Broken(cols, r) ==
    { [exists |-> FALSE, cols |-> <<>>, rows |-> <<>>],
      [exists |-> TRUE, cols |-> Tail(cols), rows |-> <<>>],
      [exists |-> TRUE, cols |-> cols, rows |-> <<>>],
      [exists |-> TRUE, cols |-> Padded(cols),
       rows |-> <<Unparsed(r, "junk"), Unparsed(r, "empty")>>] }

AqiFiles ==
    { CsvOf(AqiHeader, t) : t \in AqiTables }
    \cup { Messy(AqiHeader, <<AqiRun(24, 2, <<Num(100), Num(30)>>), AqiRun(ts, 1, w)>>) :
             ts \in {48, 192}, w \in { <<Num(5), Num(10)>>, <<NaN, Num(30)>> } }
    \cup Broken(AqiHeader, AqiRun(24, 1, <<Num(100), Num(30)>>))

WeatherFiles ==
    { CsvOf(WeatherHeader, t) : t \in WeatherTables }
    \cup { Messy(WeatherHeader, <<WRun(24, 1, <<Num(30), Num(50), Num(5)>>), WRun(ts, 1, w)>>) :
             ts \in {25, 193}, w \in { <<Num(10), Num(10), Num(0)>> } }
    \cup Broken(WeatherHeader, WRun(24, 1, <<Num(30), Num(50), Num(5)>>))

Files(a) == IF a = "aqi" THEN AqiFiles ELSE WeatherFiles

(***************************************************************************)
(* The frames a call works on.  df.sort_values('timestamp').copy() makes   *)
(* a frame of its own; the helper columns are assigned to that frame.      *)
(* (calc_trend assigns 'hrs' to data.copy(), a copy of a selection of the  *)
(* sorted frame.)  A table that shared its rows with the working frame     *)
(* would show the assignments.                                             *)
(***************************************************************************)
\* A variant of SortedCopy that sorts the caller's table in place.
SortedInPlace(t) == [rows |-> SortByTimestamp(t), shared |-> TRUE]

SortedCopy(t) == [rows |-> SortByTimestamp(t), shared |-> FALSE]

\* df_sorted['dow'] = df_sorted['timestamp'].dt.dayofweek
AddDow(rows) ==
    [i \in DOMAIN rows |->
        [k \in DOMAIN rows[i] \cup {"dow"} |->
            IF k = "dow" THEN DayOfWeek(rows[i].ts) ELSE rows[i][k]]]

\* df_sorted['hour'] = df_sorted['timestamp'].dt.hour
AddHour(rows) ==
    [i \in DOMAIN rows |->
        [k \in DOMAIN rows[i] \cup {"hour"} |->
            IF k = "hour" THEN Hour(rows[i].ts) ELSE rows[i][k]]]

\* The caller's table t once the function has assigned to its frame.
CallerSees(t, frame, assigned) == IF frame.shared THEN assigned ELSE t

\* A variant of FreshList that goes on with the list of the call before.
KeptList(old) == old

\* forecasts = []: a new list in every call.
FreshList(old) == <<>>

\* get_aqi_category, src/streamlitaap.py lines 56-69.  Every comparison
\* with NaN is false, so NaN falls through to the else branch.
get_aqi_category(aqi) ==
    IF Leq(aqi, Num(50)) THEN "Good"
    ELSE IF Leq(aqi, Num(100)) THEN "Moderate"
    ELSE IF Leq(aqi, Num(150)) THEN "Unhealthy for Sensitive"
    ELSE IF Leq(aqi, Num(200)) THEN "Unhealthy"
    ELSE IF Leq(aqi, Num(300)) THEN "Very Unhealthy"
    ELSE "Hazardous"

\* Lines 297-308: one card per record when the list is truthy.
Cards(res) ==
    IF res = None THEN <<>>
    ELSE [i \in DOMAIN res |-> get_aqi_category(res[i].aqi)]

(***************************************************************************)
(* The feature pipeline, src/test_aqi_ds10pearls.py.                       *)
(* A datetime is <<year, month, day, hour>>, a date <<year, month, day>>.  *)
(* A frame is held as a sequence of runs [time, weather, air]: the hourly   *)
(* rows of the days time[1]..time[2] (day ordinals), 24 to a day, in time  *)
(* order; weather (air) is TRUE when the rows' weather (air-quality)       *)
(* columns come from the weather (air-quality) response and FALSE when the *)
(* merge left them NaN.  The empty DataFrame is <<>>.                      *)
(***************************************************************************)
IsLeap(y) == (y % 4 = 0 /\ y % 100 # 0) \/ y % 400 = 0

DaysInMonth(y, m) ==
    IF m = 2 THEN (IF IsLeap(y) THEN 29 ELSE 28)
    ELSE IF m \in {4, 6, 9, 11} THEN 30 ELSE 31

\* dt + relativedelta(months=1): the same day of the next month, or that
\* month's last day when it is shorter; the time of day is kept.
RelativeMonth(dt) ==
    LET y == IF dt[2] = 12 THEN dt[1] + 1 ELSE dt[1]
        m == IF dt[2] = 12 THEN 1 ELSE dt[2] + 1
        last == DaysInMonth(y, m)
    IN  <<y, m, IF dt[3] > last THEN last ELSE dt[3], dt[4]>>

\* a < b on datetimes.
Before(a, b) ==
    \E i \in 1..4 : a[i] < b[i] /\ \A j \in 1..(i - 1) : a[j] = b[j]

\* min(a, b): b only when it is smaller.
MinDatetime(a, b) == IF Before(b, a) THEN b ELSE a

\* A variant of ChunkEnd that does not cut the month at end_date.
ChunkEndUncut(cur, last) == RelativeMonth(cur)

\* chunk_end of line 110.
ChunkEnd(cur, last) == MinDatetime(RelativeMonth(cur), last)

\* dt.date(), which isoformat() writes as YYYY-MM-DD.
DateOf(dt) == <<dt[1], dt[2], dt[3]>>

RECURSIVE DaysBeforeMonth(_, _)
DaysBeforeMonth(y, m) ==
    IF m = 1 THEN 0 ELSE DaysBeforeMonth(y, m - 1) + DaysInMonth(y, m - 1)

\* The ordinal of a date (date.toordinal()): the day an hourly 'time' value
\* YYYY-MM-DDTHH:00 lies in, once pd.to_datetime has parsed it.
ToOrdinal(d) ==
    LET y == d[1] - 1
    IN  y * 365 + (y \div 4) - (y \div 100) + (y \div 400)
          + DaysBeforeMonth(d[1], d[2]) + d[3]

\* The request parameters that carry the range (lines 54-55 and 66-67).
Params(start, end) ==
    [start_date |-> DateOf(start), end_date |-> DateOf(end)]

\* What a request can meet.  "fail": requests.get raises a
\* RequestException (no connection, timeout).  "notjson": the body is not
\* JSON, .json() raises.  "error": a JSON object without 'hourly', the
\* API's error body.  "hourly": the API's answer, one value per hour from
\* 00:00 of start_date to 23:00 of end_date, both days included.  "short":
\* an answer that holds start_date's hours only.  "norows": an answer whose
\* 'hourly' lists are empty.
Answers == {"fail", "notjson", "error", "hourly"}

OddAnswers == {"short", "norows"}

NoResponse == [kind |-> "unsent", from |-> 0, to |-> 0]

\* requests.get(url, params=params, timeout=60) when the server behaves as
\* kind: the response, with the days its 'hourly' lists cover.
RequestsGet(params, kind) ==
    [kind |-> kind,
     from |-> IF kind \in {"hourly", "short", "norows"}
                THEN ToOrdinal(params.start_date) ELSE 0,
     to   |-> IF kind = "hourly" THEN ToOrdinal(params.end_date)
              ELSE IF kind = "short" THEN ToOrdinal(params.start_date)
              ELSE IF kind = "norows" THEN ToOrdinal(params.start_date) - 1
              ELSE 0]

HasHourly(resp) == resp.kind \in {"hourly", "short", "norows"}

\* pd.DataFrame(resp.json()["hourly"]): one row per listed hour.
HourlyFrame(resp) ==
    IF resp.to < resp.from THEN <<>> ELSE <<[time |-> <<resp.from, resp.to>>]>>

\* The days a frame has rows of.
Times(frame) == UNION {frame[i].time[1]..frame[i].time[2] : i \in 1..Len(frame)}

RECURSIVE Ascending(_)
Ascending(S) ==
    IF S = {} THEN <<>>
    ELSE LET lo == CHOOSE x \in S : \A z \in S : x <= z
         IN  <<lo>> \o Ascending(S \ {lo})

RECURSIVE Pack(_, _, _)
\* The merged rows of the days keys, consecutive days that fare alike held
\* as one run.
Pack(keys, W, A) ==
    IF keys = <<>> THEN <<>>
    ELSE LET k == Head(keys)
             rest == Pack(Tail(keys), W, A)
         IN  IF /\ rest # <<>>
                /\ rest[1].time[1] = k + 1
                /\ rest[1].weather = (k \in W)
                /\ rest[1].air = (k \in A)
               THEN <<[rest[1] EXCEPT !.time = <<k, rest[1].time[2]>>]>> \o Tail(rest)
             ELSE <<[time |-> <<k, k>>, weather |-> k \in W, air |-> k \in A]>> \o rest

\* pd.merge(df_weather, df_air, on="time", how="outer"): one row per time of
\* either frame, in key order; the columns of the frame that lacks the time
\* are NaN.
Merge(df_weather, df_air) ==
    Pack(Ascending(Times(df_weather) \cup Times(df_air)),
         Times(df_weather), Times(df_air))

RECURSIVE SortByTime(_)
\* frame.sort_values("time"): a stable sort.  The runs of a merged frame
\* share no time, so the rows are sorted when the runs are.
SortByTime(frame) ==
    IF frame = <<>> THEN <<>>
    ELSE LET n == Len(frame)
             head == SortByTime(SubSeq(frame, 1, n - 1))
             k == Cardinality({i \in 1..Len(head) : head[i].time[1] <= frame[n].time[1]})
         IN  SubSeq(head, 1, k) \o <<frame[n]>> \o SubSeq(head, k + 1, Len(head))

\* A variant of fetch_open_meteo_chunk that returns the weather rows alone
\* when the air-quality response has no 'hourly'.
fetch_weather_alone(start_dt, end_dt, w_kind, a_kind) ==
    LET w == RequestsGet(Params(start_dt, end_dt), w_kind)
        a == RequestsGet(Params(start_dt, end_dt), a_kind)
    IN  IF w_kind \in {"fail", "notjson"} \/ a_kind \in {"fail", "notjson"}
          THEN <<>>
        ELSE IF ~HasHourly(w) THEN <<>>
        ELSE IF ~HasHourly(a) THEN SortByTime(Merge(HourlyFrame(w), <<>>))
        ELSE SortByTime(Merge(HourlyFrame(w), HourlyFrame(a)))

\* fetch_open_meteo_chunk(lat, lon, start_dt, end_dt), lines 45-98, when the
\* weather server behaves as w_kind and the air-quality server as a_kind.
fetch_open_meteo_chunk(start_dt, end_dt, w_kind, a_kind) ==
    LET w == RequestsGet(Params(start_dt, end_dt), w_kind)
        a == RequestsGet(Params(start_dt, end_dt), a_kind)
    IN  IF w_kind = "fail" \/ a_kind = "fail" THEN <<>>
        ELSE IF w_kind = "notjson" \/ a_kind = "notjson" THEN <<>>
        ELSE IF ~HasHourly(w) THEN <<>>
        ELSE IF ~HasHourly(a) THEN <<>>
        ELSE SortByTime(Merge(HourlyFrame(w), HourlyFrame(a)))

\* A variant of Keep that appends the empty frame too.
KeepAll(list, df_chunk) == Append(list, df_chunk)

\* Lines 114-115: the chunk's frame joins the list unless it is empty.
Keep(list, df_chunk) == IF df_chunk # <<>> THEN Append(list, df_chunk) ELSE list

RECURSIVE Concat(_)
\* pd.concat(list, ignore_index=True): the rows of the frames, in list order.
Concat(list) ==
    IF list = <<>> THEN <<>> ELSE Concat(SubSeq(list, 1, Len(list) - 1)) \o list[Len(list)]

\* Lines 125-134: the columns renamed, 'city' added, 'time' become 'timestamp'.
Features(frame) ==
    [i \in 1..Len(frame) |->
        [timestamp |-> frame[i].time, weather |-> frame[i].weather,
         air |-> frame[i].air, city |-> "Karachi"]]

NoDatetime == <<0, 0, 0, 0>>

NoParquet == [written |-> FALSE, rows |-> <<>>]

\* start_date and end_date of lines 31-32.
Configured == <<<<2024, 1, 1, 0>>, <<2025, 1, 1, 0>>>>

\* The ranges the pipeline is run on: the configured year; a start on the
\* 31st, over a leap February, ending within a month; the same over a
\* common February, ending on a first; a range across New Year shorter than
\* a month; one day; half a day; an empty range; a reversed range.
Ranges ==
    { Configured,
      <<<<2024, 1, 31, 0>>, <<2024, 4, 15, 0>>>>,
      <<<<2023, 1, 31, 0>>, <<2023, 3, 1, 0>>>>,
      <<<<2023, 12, 20, 0>>, <<2024, 1, 5, 0>>>>,
      <<<<2024, 5, 1, 0>>, <<2024, 5, 2, 0>>>>,
      <<<<2024, 5, 1, 0>>, <<2024, 5, 1, 12>>>>,
      <<<<2024, 3, 10, 0>>, <<2024, 3, 10, 0>>>>,
      <<<<2024, 3, 10, 0>>, <<2024, 3, 9, 0>>>> }

\* The state of the pipeline script.  ppc: "idle" (run_feature_pipeline not
\* called), "loop" (at the head of the while loop), "returned".
InitPipeline ==
    /\ ppc = "idle"
    /\ start_date = NoDatetime
    /\ end_date = NoDatetime
    /\ current = NoDatetime
    /\ frames = <<>>
    /\ chunks = <<>>
    /\ out = NoParquet
    /\ fpc = "idle"
    /\ args = [start_dt |-> NoDatetime, end_dt |-> NoDatetime]
    /\ w_resp = NoResponse
    /\ a_resp = NoResponse
    /\ fetched = <<>>

(***************************************************************************)
(* The state machine.  pc is the position of the script: "start" (before   *)
(* load_data), "halted" (nothing to show), "idle" (dashboard shown, no     *)
(* call running), "pre" (in the try block of a forecaster, before the      *)
(* loop), "loop" (at the head of the day loop), "done" (returned).         *)
(***************************************************************************)
NoStats == [none |-> TRUE]

NoCall == [none |-> TRUE]

Init ==
    /\ now = 0
    /\ t0 = 0
    /\ pc = "start"
    /\ fn = "none"
    /\ df = <<>>
    /\ days = 0
    /\ day = 0
    /\ stats = NoStats
    /\ forecasts = <<>>
    /\ result = "unset"
    /\ errors = <<>>
    /\ exc = "none"
    /\ jit = <<>>
    /\ seed = 0
    /\ app = "none"
    /\ file = [exists |-> FALSE, cols |-> <<>>, rows |-> <<>>]
    /\ loaded = NoFrame
    /\ screen = <<>>
    /\ used = <<>>
    /\ cards = <<>>
    /\ prev = NoCall
    /\ InitPipeline

\* The script of dashboard a starts on file f: df = load_data() and the
\* branch of line 138 (streamlitaap.py 136-138 and 390-391, webapp.py
\* 136-138 and 488-489).
LoadData(a, f) ==
    /\ pc = "start"
    /\ app' = a
    /\ file' = f
    /\ loaded' = load_data(f)
    /\ screen' = LoadErrors(f) \o Render(load_data(f))
    /\ pc' = IF Render(load_data(f)) = Dashboard THEN "idle" ELSE "halted"
    /\ UNCHANGED <<pvars, now, t0, fn, df, days, day, stats, forecasts, result, errors,
                   exc, jit, seed, used, cards, prev>>

\* The wall clock (in days) moves on, between calls or before an iteration
\* of a running call's loop (a tick elsewhere in a call reads the same, and
\* one after the last iteration is read by the next call, from idle).
Tick ==
    /\ now < MaxClock
    /\ pc = "idle" \/ (pc = "loop" /\ day \in DayRange(days))
    /\ now' = now + 1
    /\ UNCHANGED <<pvars, t0, pc, fn, df, days, day, stats, forecasts, result, errors,
                   exc, jit, seed, app, file, loaded, screen, used, cards, prev>>

\* One more call has started since the remembered one.
Later(p) == IF p.none \/ p.later = 2 THEN p ELSE [p EXCEPT !.later = @ + 1]

\* forecast_simple(df, days) is called on the loaded table (streamlitaap.py
\* line 295).
CallSimple(t, n) ==
    /\ pc = "idle"
    /\ app = "aqi"
    /\ t = loaded.rows
    /\ pc' = "pre"
    /\ fn' = "simple"
    /\ df' = t
    /\ days' = n
    /\ t0' = now
    /\ day' = 0
    /\ stats' = NoStats
    /\ result' = "unset"
    /\ errors' = <<>>
    /\ exc' = "none"
    /\ jit' = <<>>
    /\ used' = <<>>
    /\ cards' = <<>>
    /\ prev' = Later(prev)
    /\ UNCHANGED <<pvars, now, seed, forecasts, app, file, loaded, screen>>

\* The except branch: one st.error message, the absent result, no card.
Handle(kind, failure) ==
    /\ pc' = "done"
    /\ exc' = kind
    /\ errors' = Append(errors, "Forecast error")
    /\ result' = failure
    /\ UNCHANGED <<pvars, now, t0, fn, df, days, day, stats, forecasts, jit, seed,
                   app, file, loaded, screen, used, cards, prev>>

\* Lines 87-103.
SimplePre ==
    /\ pc = "pre"
    /\ fn = "simple"
    /\ LET df_sorted == SortedCopy(df)
       IN  df' = CallerSees(df, df_sorted, AddDow(df_sorted.rows))
    /\ stats' = SimpleStats(df)
    /\ forecasts' = FreshList(forecasts)
    /\ day' = 1
    /\ pc' = "loop"
    /\ UNCHANGED <<pvars, now, t0, fn, days, result, errors, exc, jit, seed,
                   app, file, loaded, screen, used, cards, prev>>

\* Lines 105-128: one iteration of the day loop.  np.random.uniform raises
\* OverflowError when its range is not finite, that is when aqi_std is NaN.
SimpleIter ==
    /\ pc = "loop"
    /\ fn = "simple"
    /\ day \in DayRange(days)
    /\ LET fdate == FDate(now, day)
           dow == Weekday(fdate)
           base_aqi == BaseAqi(stats, dow)
           aqi_std == AqiStd(stats, dow)
           base_temp == BaseTemp(stats, dow)
       IN  IF IsNaN(aqi_std)
           THEN Handle("OverflowError", SimpleFailure(forecasts))
           ELSE \E ja \in UniformAqi(aqi_std), jt \in TempJitters :
                  /\ forecasts' = Append(forecasts,
                         SimpleRecord(day,
                                      PredictedAqi(base_aqi, stats.aqi_trend, day, ja),
                                      PredictedTemp(base_temp, jt),
                                      fdate))
                  /\ jit' = Append(jit, <<ja, jt>>)
                  /\ used' = Append(used, [dow |-> dow, hr_off |-> <<>>])
                  /\ day' = day + 1
                  /\ UNCHANGED <<pvars, now, t0, pc, fn, df, days, stats, result, errors,
                                 exc, seed, app, file, loaded, screen, cards,
                                 prev>>

\* Line 130, and the caller's lines 297-308 that show what came back.
SimpleReturn ==
    /\ pc = "loop"
    /\ fn = "simple"
    /\ day \notin DayRange(days)
    /\ result' = forecasts
    /\ cards' = Cards(forecasts)
    /\ pc' = "done"
    /\ UNCHANGED <<pvars, now, t0, fn, df, days, day, stats, forecasts, errors, exc, jit,
                   seed, app, file, loaded, screen, used, prev>>

\* Any other exception raised inside the try block (a missing column's
\* KeyError, a MemoryError, ...) reaches the same except branch.
SimpleFault ==
    /\ pc \in {"pre", "loop"}
    /\ fn = "simple"
    /\ Handle("Exception", SimpleFailure(forecasts))

\* forecast_weather(df, days) is called on the loaded table (webapp.py
\* line 330).
CallWeather(t, n, sd) ==
    /\ pc = "idle"
    /\ app = "weather"
    /\ t = loaded.rows
    /\ pc' = "pre"
    /\ fn' = "weather"
    /\ df' = t
    /\ days' = n
    /\ seed' = sd
    /\ t0' = now
    /\ day' = 0
    /\ stats' = NoStats
    /\ result' = "unset"
    /\ errors' = <<>>
    /\ exc' = "none"
    /\ jit' = <<>>
    /\ used' = <<>>
    /\ cards' = <<>>
    /\ prev' = Later(prev)
    /\ UNCHANGED <<pvars, now, forecasts, app, file, loaded, screen>>

\* Lines 70-105.
WeatherPre ==
    /\ pc = "pre"
    /\ fn = "weather"
    /\ LET df_sorted == SortedCopy(df)
       IN  df' = CallerSees(df, df_sorted, AddDow(AddHour(df_sorted.rows)))
    /\ stats' = WeatherStats(df)
    /\ forecasts' = FreshList(forecasts)
    /\ day' = 1
    /\ pc' = "loop"
    /\ UNCHANGED <<pvars, now, t0, fn, days, result, errors, exc, jit, seed,
                   app, file, loaded, screen, used, cards, prev>>

\* Lines 107-129: one iteration of the day loop, its 24 hours included.
WeatherIter ==
    /\ pc = "loop"
    /\ fn = "weather"
    /\ day \in DayRange(days)
    /\ forecasts' = Append(forecasts, WeatherDay(stats, now, day, seed))
    /\ used' = Append(used,
                      [dow |-> Weekday(FDate(now, day)),
                       hr_off |-> [i \in DOMAIN HourRange |->
                                      HrOff(stats.last_hrs, day, HourRange[i])]])
    /\ day' = day + 1
    /\ UNCHANGED <<pvars, now, t0, pc, fn, df, days, stats, result, errors, exc, jit,
                   seed, app, file, loaded, screen, cards, prev>>

\* Line 131.
WeatherReturn ==
    /\ pc = "loop"
    /\ fn = "weather"
    /\ day \notin DayRange(days)
    /\ result' = <<forecasts, Trends(stats)>>
    /\ pc' = "done"
    /\ UNCHANGED <<pvars, now, t0, fn, df, days, day, stats, forecasts, errors, exc, jit,
                   seed, app, file, loaded, screen, used, cards, prev>>

\* Any exception raised inside the try block reaches the except branch.
WeatherFault ==
    /\ pc \in {"pre", "loop"}
    /\ fn = "weather"
    /\ Handle("Exception", WeatherFailure(forecasts))

\* The call has returned and its locals are gone; the dashboard is idle
\* until the next one.
Rerun ==
    /\ pc = "done"
    /\ pc' = "idle"
    /\ fn' = "none"
    /\ df' = <<>>
    /\ days' = 0
    /\ day' = 0
    /\ stats' = NoStats
    /\ forecasts' = FreshList(forecasts)
    /\ result' = "unset"
    /\ errors' = <<>>
    /\ exc' = "none"
    /\ jit' = <<>>
    /\ seed' = 0
    /\ used' = <<>>
    /\ cards' = <<>>
    /\ UNCHANGED <<pvars, now, t0, app, file, loaded, screen, prev>>

Next ==
    \/ pc = "start" /\ \E a \in {"aqi", "weather"} : \E f \in Files(a) : LoadData(a, f)
    \/ Tick
    \/ \E n \in 0..MaxDays : CallSimple(loaded.rows, n)
    \/ SimplePre
    \/ SimpleIter
    \/ SimpleReturn
    \/ SimpleFault
    \/ \E n \in 0..MaxDays, sd \in Seeds : CallWeather(loaded.rows, n, sd)
    \/ WeatherPre
    \/ WeatherIter
    \/ WeatherReturn
    \/ WeatherFault
    \/ Rerun

Spec == Init /\ [][Next]_vars

(***************************************************************************)
(* Two calls compared.  A second specification keeps one completed call    *)
(* (its arguments, the clock it read, the draws it was given, what it      *)
(* returned) while further calls are made.  The clock stands still and no  *)
(* exception is injected: what is compared is what the functions compute.  *)
(***************************************************************************)
RepeatFiles(a) ==
    IF a = "aqi"
    THEN { CsvOf(AqiHeader, <<AqiRun(24, n, <<Num(100), Num(30)>>)>>) : n \in {1, 2} }
    ELSE { CsvOf(WeatherHeader,
                 <<WRun(24, 1, <<Num(30), Num(50), Num(5)>>),
                   WRun(25, 1, <<Num(10), Num(10), Num(0)>>)>>) }

\* The call that has just returned is kept.
Remember ==
    /\ pc = "done"
    /\ prev.none
    /\ prev' = [none |-> FALSE, later |-> 0, fn |-> fn, df |-> df,
                days |-> days, seed |-> seed, jit |-> jit, clock |-> t0,
                result |-> result, exc |-> exc]
    /\ UNCHANGED <<pvars, now, t0, pc, fn, df, days, day, stats, forecasts, result,
                   errors, exc, jit, seed, app, file, loaded, screen, used,
                   cards>>

NextRepeat ==
    \/ pc = "start" /\ \E a \in {"aqi", "weather"} : \E f \in RepeatFiles(a) : LoadData(a, f)
    \/ \E n \in 0..MaxDays : CallSimple(loaded.rows, n)
    \/ SimplePre
    \/ SimpleIter
    \/ SimpleReturn
    \/ \E n \in 0..MaxDays, sd \in Seeds : CallWeather(loaded.rows, n, sd)
    \/ WeatherPre
    \/ WeatherIter
    \/ WeatherReturn
    \/ Remember
    \/ Rerun

SpecRepeat == Init /\ [][NextRepeat]_vars

\* The call that has returned had the arguments, the clock and the draws of
\* the remembered one.
SameCall ==
    /\ pc = "done"
    /\ ~prev.none
    /\ prev.fn = fn
    /\ prev.df = df
    /\ prev.days = days
    /\ prev.seed = seed
    /\ prev.jit = jit
    /\ prev.clock = t0
    /\ now = t0

RunFeaturePipeline(first, last) ==
    /\ ppc = "idle"
    /\ fpc = "idle"
    /\ ppc' = "loop"
    /\ start_date' = first
    /\ end_date' = last
    /\ frames' = <<>>
    /\ current' = first
    /\ UNCHANGED <<dvars, chunks, out, fpc, args, w_resp, a_resp, fetched>>

\* One pass of the while loop, lines 109-118, the two servers behaving as
\* w_kind and a_kind.  requests.get returns or raises within its timeout
\* and time.sleep(2) returns, so the pass ends.
Iterate(w_kind, a_kind) ==
    /\ ppc = "loop"
    /\ Before(current, end_date)
    /\ LET chunk_end == ChunkEnd(current, end_date)
           df_chunk == fetch_open_meteo_chunk(current, chunk_end, w_kind, a_kind)
       IN  /\ frames' = Keep(frames, df_chunk)
           /\ current' = chunk_end
           /\ chunks' = Append(chunks, [start_dt |-> current, end_dt |-> chunk_end,
                                        df_chunk |-> df_chunk])
    /\ UNCHANGED <<dvars, ppc, start_date, end_date, out, fpc, args, w_resp,
                   a_resp, fetched>>

\* The loop is left, lines 120-139: nothing is written when no frame was
\* kept, else the frames are concatenated and saved.
Finish ==
    /\ ppc = "loop"
    /\ ~Before(current, end_date)
    /\ ppc' = "returned"
    /\ out' = IF frames = <<>> THEN out
              ELSE [written |-> TRUE, rows |-> Features(Concat(frames))]
    /\ UNCHANGED <<dvars, start_date, end_date, current, frames, chunks, fpc,
                   args, w_resp, a_resp, fetched>>

NextPipeline ==
    \/ \E r \in Ranges : RunFeaturePipeline(r[1], r[2])
    \/ \E w_kind \in Answers, a_kind \in Answers : Iterate(w_kind, a_kind)
    \/ Finish

SpecPipeline == Init /\ [][NextPipeline]_vars /\ WF_vars(NextPipeline)

\* fetch_open_meteo_chunk on its own.  fpc: "idle", "try" (called, at the
\* try of line 71), "returned".
\* It is called on the first chunk of each range, on a single day, and on
\* three days around a leap day.
FetchRanges ==
    { <<r[1], ChunkEnd(r[1], r[2])>> : r \in {q \in Ranges : Before(q[1], q[2])} }
      \cup { <<<<2024, 3, 10, 0>>, <<2024, 3, 10, 0>>>>,
              <<<<2024, 2, 28, 0>>, <<2024, 3, 1, 0>>>> }

FetchCall(first, last) ==
    /\ fpc = "idle"
    /\ ppc = "idle"
    /\ fpc' = "try"
    /\ args' = [start_dt |-> first, end_dt |-> last]
    /\ UNCHANGED <<dvars, ppc, start_date, end_date, current, frames, chunks,
                   out, w_resp, a_resp, fetched>>

\* Lines 71-98.  The air-quality request is not sent when the weather
\* request has raised.
FetchTry(w_kind, a_kind) ==
    /\ fpc = "try"
    /\ fpc' = "returned"
    /\ w_resp' = RequestsGet(Params(args.start_dt, args.end_dt), w_kind)
    /\ a_resp' = IF w_kind = "fail" THEN NoResponse
                 ELSE RequestsGet(Params(args.start_dt, args.end_dt), a_kind)
    /\ fetched' = fetch_open_meteo_chunk(args.start_dt, args.end_dt, w_kind, a_kind)
    /\ UNCHANGED <<dvars, ppc, start_date, end_date, current, frames, chunks,
                   out, args>>

NextFetch ==
    \/ \E r \in FetchRanges : FetchCall(r[1], r[2])
    \/ \E w_kind \in Answers \cup OddAnswers, a_kind \in Answers \cup OddAnswers :
          FetchTry(w_kind, a_kind)

SpecFetch == Init /\ [][NextFetch]_vars

(***************************************************************************)
(* Properties.                                                             *)
(***************************************************************************)
Returned == pc = "done" /\ exc = "none"

SimpleReturned == fn = "simple" /\ Returned

WeatherReturned == fn = "weather" /\ Returned

\* C1: every record forecast_simple returns has its aqi in [10, 500] and its
\* temp in [15, 45], whatever the table (missing values included).
C1_SimpleWithinBounds ==
    SimpleReturned =>
        \A i \in 1..Len(result) :
            /\ InRange(result[i].aqi, AqiLo, AqiHi)
            /\ InRange(result[i].temp, TempLo, TempHi)

\* C2: every hourly value forecast_weather returns lies in its range: temps
\* in [15, 45], humidity in [20, 100], wind in [0, 25].
C2_WeatherWithinBounds ==
    WeatherReturned =>
        \A i \in 1..Len(result[1]) : \A h \in 1..Len(result[1][i].temps) :
            /\ InRange(result[1][i].temps[h], TempLo, TempHi)
            /\ InRange(result[1][i].humidity[h], HumLo, HumHi)
            /\ InRange(result[1][i].wind[h], WindLo, WindHi)

\* C3: a call in which an exception was raised returns the absent result
\* (None, or (None, None)) after exactly one error message, never the records
\* built so far; a call that returns records returns one per requested day.
C3_FailureReturnsNothing ==
    pc = "done" =>
        IF exc # "none"
        THEN /\ errors = <<"Forecast error">>
             /\ fn = "simple" => result = None
             /\ fn = "weather" => result = <<None, None>>
        ELSE /\ errors = <<>>
             /\ fn = "simple" => Len(result) = days
             /\ fn = "weather" => Len(result[1]) = days

\* C3 witness: the loop had already built a record when the exception came.
C3_Witness ==
    /\ pc = "done"
    /\ fn = "simple"
    /\ exc = "OverflowError"
    /\ Len(forecasts) >= 1
    /\ result = None

WeatherCols == {"temp_C", "humidity_percent", "wind_speed_mps"}

SlopeOf(st, c) ==
    IF c = "temp_C" THEN st.temp_slope
    ELSE IF c = "humidity_percent" THEN st.hum_slope
    ELSE st.wind_slope

\* The number of rows of the call's trailing window that hold a value in c.
ValidInWindow(c) == Rows(Valid(Recent(df), c))

\* C4: a trailing window with fewer than 2 non-missing samples of a column
\* gives that column the slope 0, and the call goes on to return normally.
C4_DegenerateTrendIsZero ==
    (fn = "weather" /\ pc \in {"loop", "done"} /\ stats # NoStats) =>
        \A c \in WeatherCols :
            ValidInWindow(c) < 2 =>
                /\ SlopeOf(stats, c) = Num(0)
                /\ exc \in {"none", "Exception"}
                /\ WeatherReturned =>
                     SlopeOf([temp_slope |-> result[2].temp_trend,
                              hum_slope |-> result[2].humidity_trend,
                              wind_slope |-> result[2].wind_trend], c) = Num(0)

\* C4 witness: a returned call whose window held exactly one temperature
\* sample among several rows, and none of humidity.
C4_Witness ==
    /\ WeatherReturned
    /\ Rows(Recent(df)) >= 2
    /\ ValidInWindow("temp_C") = 1
    /\ ValidInWindow("humidity_percent") = 0
    /\ result[2].temp_trend = Num(0)

SingleDow(t) == Cardinality(DowKeys(t)) = 1

\* The trend term of the claim: mean of the last 72 rows minus mean of the
\* last 336 rows, times d, times 0.3.
TrendTerm(t, d) ==
    Mul(Mul(Sub(Mean(TailRows(t, 72), "aqi"), Mean(TailRows(t, 336), "aqi")), Num(d)),
        <<3, 10>>)

ConstTable(t) ==
    \A c \in WeatherCols : \A i \in 1..Len(t) : ~IsNaN(t[i][c]) /\ t[i][c] = t[1][c]

\* No two rows of the table share a timestamp.
DistinctTs(t) ==
    \A i \in 1..Len(t) : t[i].n = 1 /\ \A j \in 1..Len(t) : t[i].ts = t[j].ts => i = j

\* C6 as stated: on a constant history, with the noise stubbed to 0, every
\* hourly value of every day equals the constant.
C6_ConstantReproduced ==
    (WeatherReturned /\ seed = 0 /\ ConstTable(df)) =>
        \A i \in 1..Len(result[1]) : \A h \in DOMAIN HourRange :
            /\ result[1][i].temps[h] = df[1].temp_C
            /\ result[1][i].humidity[h] = df[1].humidity_percent
            /\ result[1][i].wind[h] = df[1].wind_speed_mps

\* C6 amended: on a constant history with pairwise distinct timestamps, with
\* the noise stubbed to 0, every hourly value of every day equals the
\* constant clipped to the quantity's range.
C6_ConstantReproducedClipped ==
    (WeatherReturned /\ seed = 0 /\ ConstTable(df) /\ DistinctTs(df)) =>
        /\ Len(result[1]) = days
        /\ \A i \in 1..Len(result[1]) : \A h \in DOMAIN HourRange :
            /\ result[1][i].temps[h] = Clip(df[1].temp_C, 15, 45)
            /\ result[1][i].humidity[h] = Clip(df[1].humidity_percent, 20, 100)
            /\ result[1][i].wind[h] = Clip(df[1].wind_speed_mps, 0, 25)

\* C6 witness: two days forecast from a constant history of 25 hourly rows
\* whose constants lie outside the three ranges.
C6_Witness ==
    /\ WeatherReturned
    /\ seed = 0
    /\ ConstTable(df)
    /\ DistinctTs(df)
    /\ Len(df) = 25
    /\ Len(result[1]) = 2
    /\ result[1][2].temps[24] = Num(45)
    /\ df[1].temp_C = Num(50)
    /\ result[1][2].humidity[1] = Num(20)
    /\ result[1][1].wind[7] = Num(25)

\* C7: with horizon 0 a call that raises nothing returns an empty sequence of
\* records: forecast_simple [], forecast_weather ([], the trend summary).
C7_ZeroHorizonEmpty ==
    (Returned /\ days = 0) =>
        /\ fn = "simple" => result = <<>>
        /\ fn = "weather" => result = <<<<>>, Trends(stats)>>

\* C7 witness: forecast_weather returned for horizon 0 with a fitted trend.
C7_Witness ==
    /\ WeatherReturned
    /\ days = 0
    /\ result[1] = <<>>
    /\ ~IsNaN(result[2].temp_trend)
    /\ result[2].temp_trend # Num(0)

\* C8: a successful forecast_simple call for N >= 1 days returns N records,
\* with day fields 1..N in order and strictly increasing dates, record d
\* dated d days after a reading of the clock taken during the call.
C8_SimpleOnePerDay ==
    (SimpleReturned /\ days >= 1) =>
        /\ Len(result) = days
        /\ \A d \in 1..Len(result) :
            /\ result[d].day = d
            /\ result[d].date - d \in t0..now
            /\ d > 1 => result[d - 1].date < result[d].date

\* C8 witness: two records, the clock having moved between them.
C8_Witness ==
    /\ SimpleReturned
    /\ days = 2
    /\ Len(result) = 2
    /\ result[1].date = t0 + 1
    /\ result[2].date = t0 + 3

\* C9: a successful forecast_weather call for N >= 1 days returns N day
\* records with day fields 1..N in order, each with 24 temps, 24 humidity and
\* 24 wind values in hour order 0..23, and a trend summary with exactly the
\* keys temp_trend, humidity_trend and wind_trend.
C9_WeatherShape ==
    (WeatherReturned /\ days >= 1) =>
        /\ Len(result[1]) = days
        /\ DOMAIN result[2] = {"temp_trend", "humidity_trend", "wind_trend"}
        /\ \A d \in 1..Len(result[1]) :
            /\ result[1][d].day = d
            /\ DOMAIN result[1][d] = {"day", "temps", "humidity", "wind"}
            /\ Len(result[1][d].temps) = 24
            /\ Len(result[1][d].humidity) = 24
            /\ Len(result[1][d].wind) = 24
            /\ \A h \in 0..23 :
                 result[1][d].wind[h + 1] = Clip(PredW(stats, d, h, seed), 0, 25)

\* C9 witness: two day records whose wind values differ from hour to hour.
C9_Witness ==
    /\ WeatherReturned
    /\ days = 2
    /\ Len(result[1]) = 2
    /\ ~IsNaN(result[1][2].wind[1])
    /\ Less(result[1][2].wind[2], result[1][2].wind[1])
    /\ Less(result[1][2].wind[24], result[1][2].wind[23])

\* The day of the week of forecast day d of the running call was never
\* observed in the history.
Unseen(date) == Weekday(date) \notin DowKeys(df)

\* C10: on a forecast day whose day of the week was never observed, the AQI
\* base and jitter scale are the mean and standard deviation of the trailing
\* 336 rows and the temperature base is their mean temperature, and the day
\* yields a record: the call does not fail on it.
C10_FallbackProducesRecord ==
    (fn = "simple" /\ pc \in {"loop", "done"}) =>
        /\ \A d \in 1..Len(forecasts) :
             Unseen(forecasts[d].date) =>
                /\ forecasts[d].aqi =
                     Clip(Add(Add(Mean(TailRows(df, 336), "aqi"),
                                  Mul(Mul(stats.aqi_trend, Num(d)), <<3, 10>>)),
                              jit[d][1]), 10, 500)
                /\ Leq(Mul(Num(25), Mul(jit[d][1], jit[d][1])),
                       StdSq(TailRows(df, 336), "aqi"))
                /\ forecasts[d].temp =
                     Clip(Add(Mean(TailRows(df, 336), "temp"), jit[d][2]), 15, 45)
        /\ exc = "OverflowError" => ~Unseen(FDate(now, day))

\* C10, the part that holds: the values the fallback path uses.
C10_FallbackValues ==
    (fn = "simple" /\ pc \in {"loop", "done"}) =>
        \A d \in 1..Len(forecasts) :
             Unseen(forecasts[d].date) =>
                /\ forecasts[d].aqi =
                     Clip(Add(Add(Mean(TailRows(df, 336), "aqi"),
                                  Mul(Mul(stats.aqi_trend, Num(d)), <<3, 10>>)),
                              jit[d][1]), 10, 500)
                /\ Leq(Mul(Num(25), Mul(jit[d][1], jit[d][1])),
                       StdSq(TailRows(df, 336), "aqi"))
                /\ forecasts[d].temp =
                     Clip(Add(Mean(TailRows(df, 336), "temp"), jit[d][2]), 15, 45)

\* C11: from the moment forecast_simple or forecast_weather is called to the
\* moment it has returned, with a forecast or from its except branch, the
\* caller's table is the table that was passed: the same rows in the same
\* order with the same columns, none of dow, hour, hrs among them.
C11_CallerTableUnchanged ==
    pc \in {"pre", "loop", "done"} =>
        /\ df = loaded.rows
        /\ \A i \in DOMAIN df : DOMAIN df[i] \cap {"dow", "hour", "hrs"} = {}

\* A call that built its helper columns and a record, then failed.
C11_Witness ==
    /\ pc = "done"
    /\ exc = "OverflowError"
    /\ Len(forecasts) >= 1
    /\ Len(df) >= 2
    /\ df = loaded.rows

\* The file row raw read as the table row r.
SameRow(raw, r) ==
    /\ DOMAIN r = (DOMAIN raw \ {"timestamp"}) \cup {"ts"}
    /\ r.ts = raw.timestamp[2]
    /\ \A k \in DOMAIN raw \ {"timestamp"} : r[k] = raw[k]

Readable(f) == f.exists /\ \E i \in DOMAIN f.cols : f.cols[i][2] = "timestamp"

\* C12: on a file that can be read and has a timestamp column, load_data
\* returns a table whose column names are the file's without the blanks
\* around them, whose rows are exactly the file's rows whose timestamp parses
\* (each as often as in the file), in non-decreasing order of timestamp.
\* (The table is assigned once, by load_data: it is looked at while no call
\* runs.)
C12_LoadedTable ==
    (pc \in {"idle", "halted"} /\ Readable(file)) =>
        /\ ~loaded.none
        /\ Len(loaded.columns) = Len(file.cols)
        /\ \A i \in DOMAIN file.cols :
              loaded.columns[i] = <<0, file.cols[i][2], 0>>
        /\ \A i \in DOMAIN loaded.rows :
              Cardinality({j \in DOMAIN loaded.rows : loaded.rows[j] = loaded.rows[i]})
              = Cardinality({j \in DOMAIN file.rows :
                               /\ file.rows[j].timestamp[1] = "stamp"
                               /\ SameRow(file.rows[j], loaded.rows[i])})
        /\ \A j \in DOMAIN file.rows :
              file.rows[j].timestamp[1] = "stamp" =>
                  \E i \in DOMAIN loaded.rows : SameRow(file.rows[j], loaded.rows[i])
        /\ \A i, j \in DOMAIN loaded.rows :
              i < j => loaded.rows[i].ts <= loaded.rows[j].ts

\* A file with padded names, rows out of order and two timestamps that do
\* not parse has been loaded.
C12_Witness ==
    /\ pc = "idle"
    /\ file.cols[1] = <<1, "timestamp", 1>>
    /\ Len(file.rows) = 4
    /\ file.rows[2].timestamp[2] > file.rows[4].timestamp[2]
    /\ Len(loaded.rows) = 2

\* C13: when reading the file raises, load_data emits its error and returns
\* None; then, and when the loaded table has no row, the script shows the
\* 'Could not load data' error and nothing of the dashboard, and no
\* forecaster is ever called.
C13_LoadFailureHalts ==
    pc # "start" =>
        /\ ~Readable(file) =>
              /\ loaded.none
              /\ screen = <<"Error loading data", "Could not load data">>
        /\ (~loaded.none /\ Rows(loaded.rows) = 0) =>
              screen = <<"Could not load data">>
        /\ (loaded.none \/ Rows(loaded.rows) = 0) =>
              /\ pc = "halted"
              /\ fn = "none"
              /\ result = "unset"
              /\ \A i \in DOMAIN screen : \A j \in DOMAIN Dashboard :
                    screen[i] # Dashboard[j]

\* A file whose rows all fail to parse: a table, with no row.
C13_Witness ==
    /\ pc = "halted"
    /\ ~loaded.none
    /\ Len(file.rows) > 0
    /\ Rows(loaded.rows) = 0

\* What the claim's sum is made of, for column c, from the table: the
\* baseline, the hour-of-day and day-of-week means with their means, the
\* slope and the hours the trailing window spans.
Parts(c) ==
    LET sorted == SortByTimestamp(df)
        window == Recent(sorted)
        hm == HourlyMeans(sorted, c)
        wm == WeeklyMeans(sorted, c)
    IN  [ base |-> Mean(TailRows(window, 24), c),
          hm |-> hm, hmean |-> SeriesMean(hm),
          wm |-> wm, wmean |-> SeriesMean(wm),
          slope |-> calc_trend(window, c),
          span |-> MaxTs(window) - MinTs(window) ]

\* The part of the claim's sum that is the same all day: the baseline and,
\* when weekly, the day-of-week deviation for the key of forecast day d.
Level(p, weekly, d) ==
    LET dow == used[d].dow
        wdev == Sub(IF dow \in DOMAIN p.wm THEN p.wm[dow] ELSE p.base, p.wmean)
    IN  IF weekly THEN Add(p.base, wdev) ELSE p.base

\* The prediction the claim describes on forecast day d, hour h: the day's
\* level, the hour-of-day deviation, the trend and the noise of stream q.
Described(p, level, q, d, h) ==
    LET hdev == Sub(IF h \in DOMAIN p.hm THEN p.hm[h] ELSE p.base, p.hmean)
        off == p.span + (d - 1) * 24 + h
    IN  Add(Add(Add(level, hdev), Mul(p.slope, Num(off))), Normal(seed, q, d, h))

Follows(weeklyWind) ==
    \A pt \in {Parts("temp_C")} :
    \A ph \in {Parts("humidity_percent")} :
    \A pw \in {Parts("wind_speed_mps")} :
    \A d \in 1..Len(result[1]) :
    \A lt \in {Level(pt, TRUE, d)} :
    \A lh \in {Level(ph, TRUE, d)} :
    \A lw \in {Level(pw, weeklyWind, d)} :
    \A h \in 0..23 :
        /\ result[1][d].temps[h + 1] = Clip(Described(pt, lt, "t", d, h), 15, 45)
        /\ result[1][d].humidity[h + 1] = Clip(Described(ph, lh, "h", d, h), 20, 100)
        /\ result[1][d].wind[h + 1] = Clip(Described(pw, lw, "w", d, h), 0, 25)

\* C15 as stated: every value forecast_weather returns, of each of the three
\* quantities, is the clipped sum of baseline, hour-of-day deviation,
\* day-of-week deviation, slope times hour offset, and noise.
C15_AllThreeWeekly == WeatherReturned => Follows(TRUE)

\* C15, amended: temperature and humidity are that sum; wind speed is the
\* sum without the day-of-week deviation.
C15_WindWithoutWeekly == WeatherReturned => Follows(FALSE)

\* A forecast from a table of two weekdays with a trend and non-zero noise,
\* with values of all three quantities strictly inside their ranges.
C15_Witness ==
    /\ WeatherReturned
    /\ days >= 1
    /\ seed = 1
    /\ Cardinality(DowKeys(df)) = 2
    /\ ~Follows(TRUE)
    /\ \E h \in 1..24 :
          /\ Less(Num(15), result[1][1].temps[h]) /\ Less(result[1][1].temps[h], Num(45))
          /\ Less(Num(20), result[1][1].humidity[h]) /\ Less(result[1][1].humidity[h], Num(100))
          /\ Less(Num(0), result[1][1].wind[h]) /\ Less(result[1][1].wind[h], Num(25))

\* The hours between the first and the last timestamp of the trailing window
\* of the call's table.
WindowSpan ==
    LET all == {df[i].ts : i \in DOMAIN df}
        last == CHOOSE m \in all : \A x \in all : x <= m
        inside == {x \in all : x >= last - 7 * 24}
        first == CHOOSE m \in inside : \A x \in inside : m <= x
    IN  last - first

\* C16: the hour offset forecast_weather uses for day d, hour h is the hours
\* the trailing window spans plus (d - 1) * 24 + h; from one hourly
\* prediction to the next it grows by exactly 1, from hour 23 of a day to
\* hour 0 of the next day included, and the first one (d = 1, h = 0) is the
\* window's span itself.
C16_HourOffset ==
    (fn = "weather" /\ pc \in {"loop", "done"} /\ exc = "none") =>
        /\ \A span \in {WindowSpan} : \A d \in DOMAIN used : \A h \in 0..23 :
              used[d].hr_off[h + 1] = span + (d - 1) * 24 + h
        /\ \A d \in DOMAIN used : \A h \in 1..23 :
              used[d].hr_off[h + 1] = used[d].hr_off[h] + 1
        /\ \A d \in DOMAIN used :
              d + 1 \in DOMAIN used => used[d + 1].hr_off[1] = used[d].hr_off[24] + 1
        /\ (Len(used) >= 1 => used[1].hr_off[1] = WindowSpan)
        /\ \A d \in DOMAIN used : Len(used[d].hr_off) = 24

\* Two forecast days made from a window whose rows are a week apart.
C16_Witness ==
    /\ WeatherReturned
    /\ Len(used) = 2
    /\ WindowSpan = 168
    /\ used[2].hr_off[1] = 192

RECURSIVE SumQ(_)
SumQ(seq) == IF seq = <<>> THEN Num(0) ELSE Add(Head(seq), SumQ(Tail(seq)))

\* The samples of column c in the call's trailing window: x the hours since
\* the window's first timestamp, y the value, n how many rows carry them;
\* rows whose value is missing are left out.
Samples(c) ==
    LET all == {df[i].ts : i \in DOMAIN df}
        last == CHOOSE m \in all : \A x \in all : x <= m
        inside == {x \in all : x >= last - 7 * 24}
        first == CHOOSE m \in inside : \A x \in inside : m <= x
        rows == SelectSeq(df, LAMBDA r : r.ts \in inside /\ ~IsNaN(r[c]))
    IN  [i \in DOMAIN rows |->
            [x |-> Num(rows[i].ts - first), y |-> rows[i][c], n |-> Num(rows[i].n)]]

\* The least-squares slope of y on x in its textbook form,
\* (N Sxy - Sx Sy) / (N Sxx - Sx Sx).
LeastSquares(s) ==
    LET N == SumQ([i \in DOMAIN s |-> s[i].n])
        Sx == SumQ([i \in DOMAIN s |-> Mul(s[i].n, s[i].x)])
        Sy == SumQ([i \in DOMAIN s |-> Mul(s[i].n, s[i].y)])
        Sxy == SumQ([i \in DOMAIN s |-> Mul(s[i].n, Mul(s[i].x, s[i].y))])
        Sxx == SumQ([i \in DOMAIN s |-> Mul(s[i].n, Mul(s[i].x, s[i].x))])
    IN  Div(Sub(Mul(N, Sxy), Mul(Sx, Sy)), Sub(Mul(N, Sxx), Mul(Sx, Sx)))

\* At least two samples, not all at one timestamp.
Fittable(s) ==
    /\ Less(Num(1), SumQ([i \in DOMAIN s |-> s[i].n]))
    /\ \E i, j \in DOMAIN s : s[i].x # s[j].x

\* Every sample lies on the line y = a + b * x.
OnLine(s, a, b) == \A i \in DOMAIN s : s[i].y = Add(a, Mul(b, s[i].x))

Lines == {<<Num(20), <<1, 2>>>>, <<Num(90), Num(-1)>>, <<Num(3), <<-1, 10>>>>,
          <<Num(20), <<1, 4>>>>, <<Num(5), <<1, 6>>>>}

\* C17: for a trailing window with at least two non-missing samples of a
\* column at timestamps that are not all equal, the slope calc_trend gives is
\* the least-squares slope over the non-missing samples, x the hours since
\* the window's first timestamp; samples that lie on a line y = a + b * x
\* give b, and a constant column gives 0.  (The slopes are assigned once per
\* call, before the loop: they are looked at where the loop starts.)
C17_LeastSquaresSlope ==
    (fn = "weather" /\ pc = "loop" /\ day = 1) =>
        \A c \in WeatherCols : \A s \in {Samples(c)} :
            Fittable(s) =>
                /\ SlopeOf(stats, c) = LeastSquares(s)
                /\ \A l \in Lines : OnLine(s, l[1], l[2]) => SlopeOf(stats, c) = l[2]
                /\ (\A i \in DOMAIN s : s[i].y = s[1].y) => SlopeOf(stats, c) = Num(0)

\* A window of three rows: a column with a value missing in the middle
\* whose two samples lie on a line, a column of three samples that do not,
\* and 26 hourly rows on a line elsewhere.
C17_Witness ==
    /\ fn = "weather" /\ pc = "loop" /\ day = 1 /\ days >= 1
    /\ Len(df) = 3
    /\ Len(Samples("temp_C")) = 2
    /\ OnLine(Samples("temp_C"), Num(20), <<1, 4>>)
    /\ stats.temp_slope = <<1, 4>>
    /\ Len(Samples("humidity_percent")) = 3
    /\ \A l \in Lines : ~OnLine(Samples("humidity_percent"), l[1], l[2])
    /\ ~IsNaN(stats.hum_slope)
    /\ stats.hum_slope # Num(0)

\* The 26 hourly rows on a line.
C17_LinearReached ==
    /\ fn = "weather" /\ pc = "loop" /\ day = 1 /\ days >= 1
    /\ Len(df) = 26
    /\ stats.temp_slope = <<1, 2>>
    /\ stats.hum_slope = Num(-1)
    /\ stats.wind_slope = <<-1, 10>>

\* The rows of the call's table at or after its latest timestamp less 7 days.
Window ==
    LET all == {df[i].ts : i \in DOMAIN df}
        last == CHOOSE m \in all : \A x \in all : x <= m
    IN  SelectSeq(df, LAMBDA r : r.ts >= last - 7 * 24)

\* The values of column c row by row, each run written out.
RECURSIVE Expand(_, _)
Expand(t, c) ==
    IF t = <<>> THEN <<>>
    ELSE [i \in 1..Head(t).n |-> Head(t)[c]] \o Expand(Tail(t), c)

\* The mean of the non-missing values among the last 24 of vals (among all
\* of them when there are fewer), NaN when none is left.
MeanOfLast24(vals) ==
    LET from == IF Len(vals) > 24 THEN Len(vals) - 23 ELSE 1
        kept == SelectSeq(SubSeq(vals, from, Len(vals)), LAMBDA v : ~IsNaN(v))
    IN  IF kept = <<>> THEN NaN ELSE Div(SumQ(kept), Num(Len(kept)))

BaseOf(st, c) ==
    IF c = "temp_C" THEN st.base_temp
    ELSE IF c = "humidity_percent" THEN st.base_hum
    ELSE st.base_wind

\* C18: the trailing window of forecast_weather is exactly the rows whose
\* timestamp is at or after the latest timestamp less 7 days, a row exactly
\* 7 days old included, so it holds the table's latest row; the slopes are
\* fitted on that window and each baseline is the mean over the window's
\* last 24 rows (over all of them when it has fewer).  (Window, slopes and
\* baselines are assigned once per call: they are looked at where the loop
\* starts.)
C18_TrailingWindow ==
    (fn = "weather" /\ pc = "loop" /\ day = 1) =>
        /\ stats.recent = Window
        /\ Len(Window) >= 1
        /\ Window[Len(Window)] = df[Len(df)]
        /\ \A i \in DOMAIN df :
              df[i].ts = df[Len(df)].ts - 168 => \E j \in DOMAIN stats.recent : stats.recent[j] = df[i]
        /\ \A c \in WeatherCols :
              /\ SlopeOf(stats, c) = calc_trend(Window, c)
              /\ BaseOf(stats, c) = MeanOfLast24(Expand(Window, c))

\* A table whose first row is exactly 7 days older than its last: both are
\* in the window, and the slope is the one through both.
C18_Witness ==
    /\ fn = "weather" /\ pc = "loop" /\ day = 1 /\ days >= 1
    /\ Len(df) = 2
    /\ df[1].ts = df[2].ts - 168
    /\ Len(stats.recent) = 2
    /\ ~IsNaN(stats.temp_slope)
    /\ stats.temp_slope # Num(0)

\* A window of more than 24 rows whose baseline leaves the first rows out.
C18_BaselineReached ==
    /\ fn = "weather" /\ pc = "loop" /\ day = 1 /\ days >= 1
    /\ Len(stats.recent) = 26
    /\ stats.base_temp = MeanOfLast24(Expand(Window, "temp_C"))
    /\ stats.base_temp # Mean(Window, "temp_C")

\* C19: in both forecasters the seasonal key of forecast day d is a weekday
\* number 0..6 (Monday = 0) taken from the wall clock plus d days, and the
\* keys of consecutive forecast days advance by 1 modulo 7.
C19_KeysAdvanceByOne ==
    (pc \in {"loop", "done"} /\ fn # "none") =>
        /\ \A d \in DOMAIN used : used[d].dow \in 0..6
        /\ \A d \in DOMAIN used :
              d + 1 \in DOMAIN used => used[d + 1].dow = (used[d].dow + 1) % 7

\* What does hold: each key is the weekday of a date the clock showed during
\* the call plus d days, whatever the table; when the date did not change
\* during the call the keys advance by 1 modulo 7.
C19_KeyFromClock ==
    (pc \in {"loop", "done"} /\ fn # "none") =>
        /\ \A d \in DOMAIN used : \E k \in t0..now : used[d].dow = (k + d) % 7
        /\ now = t0 =>
              \A d \in DOMAIN used :
                  d + 1 \in DOMAIN used => used[d + 1].dow = (used[d].dow + 1) % 7

\* The six categories in order of severity, each with the AQI values it
\* takes: above lo (when it has one) and up to hi (when it has one).
Buckets ==
    << [name |-> "Good", least |-> FALSE, lo |-> 0, most |-> TRUE, hi |-> 50],
       [name |-> "Moderate", least |-> TRUE, lo |-> 50, most |-> TRUE, hi |-> 100],
       [name |-> "Unhealthy for Sensitive", least |-> TRUE, lo |-> 100, most |-> TRUE, hi |-> 150],
       [name |-> "Unhealthy", least |-> TRUE, lo |-> 150, most |-> TRUE, hi |-> 200],
       [name |-> "Very Unhealthy", least |-> TRUE, lo |-> 200, most |-> TRUE, hi |-> 300],
       [name |-> "Hazardous", least |-> TRUE, lo |-> 300, most |-> FALSE, hi |-> 0] >>

InBucket(x, b) ==
    /\ b.least => Less(Num(b.lo), x)
    /\ b.most => Leq(x, Num(b.hi))
    /\ ~IsNaN(x)

Severity(name) == CHOOSE k \in DOMAIN Buckets : Buckets[k].name = name

\* AQI values around every threshold and at the ends of the clip range.
Probes ==
    { Num(v) : v \in {-5, 0, 10, 49, 50, 51, 99, 100, 101, 149, 150, 151, 199, 200,
                      201, 299, 300, 301, 500, 501} }
    \cup { <<101, 2>>, <<201, 2>>, <<301, 2>>, <<401, 2>>, <<601, 2>> }

\* get_aqi_category on numbers: one category each, the one of its bucket,
\* never less severe for a larger value.
CategoryOfNumbers ==
    /\ \A x \in Probes : \A k \in DOMAIN Buckets :
          InBucket(x, Buckets[k]) <=> get_aqi_category(x) = Buckets[k].name
    /\ \A x, y \in Probes :
          Leq(x, y) => Severity(get_aqi_category(x)) <= Severity(get_aqi_category(y))

\* C20: get_aqi_category gives every AQI the one category of its bucket
\* (up to 50 Good, up to 100 Moderate, up to 150 Unhealthy for Sensitive, up
\* to 200 Unhealthy, up to 300 Very Unhealthy, above that Hazardous), never
\* a less severe one for a larger AQI, and every forecast AQI that
\* forecast_simple returns, a value in [10, 500], is shown with the category
\* of the bucket it lies in.
C20_ForecastCategory ==
    (SimpleReturned /\ result # None) =>
        /\ CategoryOfNumbers
        /\ Len(cards) = Len(result)
        /\ \A i \in DOMAIN result :
              /\ InRange(result[i].aqi, AqiLo, AqiHi)
              /\ \E k \in DOMAIN Buckets :
                    InBucket(result[i].aqi, Buckets[k]) /\ cards[i] = Buckets[k].name

\* What does hold: the mapping on numbers, and the category of its bucket
\* for every forecast AQI that is a number.
C20_NumericForecastCategory ==
    (SimpleReturned /\ result # None) =>
        /\ CategoryOfNumbers
        /\ Len(cards) = Len(result)
        /\ \A i \in DOMAIN result :
              ~IsNaN(result[i].aqi) =>
                  \E k \in DOMAIN Buckets :
                      InBucket(result[i].aqi, Buckets[k]) /\ cards[i] = Buckets[k].name

\* The AQI values of the call's table row by row: all of them, and the ones
\* of the rows on weekday dow.
AqiOfAll == Expand(df, "aqi")

AqiOfDow(dow) == Expand(SelectSeq(df, LAMBDA r : (r.ts \div 24) % 7 = dow), "aqi")

\* The mean of the values that are not missing, NaN when none is left.
MeanOf(vals) ==
    LET kept == SelectSeq(vals, LAMBDA v : ~IsNaN(v))
    IN  IF kept = <<>> THEN NaN ELSE Div(SumQ(kept), Num(Len(kept)))

\* The seasonal mean of weekday dow, or the mean of the whole table when the
\* table has no row on that weekday.
SeasonalOrFallback(dow) ==
    IF AqiOfDow(dow) # <<>> THEN MeanOf(AqiOfDow(dow)) ELSE MeanOf(AqiOfAll)

FlatAt72(withAqi) ==
    (Rows(df) <= 72 /\ withAqi) =>
        /\ stats.aqi_trend = Num(0)
        /\ \A i \in DOMAIN forecasts :
              jit[i][1] = Num(0) =>
                  forecasts[i].aqi
                    = Clip(SeasonalOrFallback(forecasts[i].date % 7), 10, 500)

WholeTo336 == (Rows(df) >= 73 /\ Rows(df) <= 336) => stats.recent = df

\* C21 as stated: on a history of at most 72 rows the trend delta of
\* forecast_simple is exactly 0 and every record drawn with zero jitter has
\* the clipped seasonal (or fallback) mean as its aqi, whatever its day; on
\* one of 73 to 336 rows the 336-row window is the whole table.
C21_ShortHistoryFlat ==
    (fn = "simple" /\ pc \in {"loop", "done"} /\ stats # NoStats) =>
        FlatAt72(TRUE) /\ WholeTo336

\* What the code does: the same for a history that holds at least one AQI
\* value; on one of at most 72 rows that holds none the trend delta is NaN
\* and no record is produced.
C21_ShortHistoryWithAqi ==
    (fn = "simple" /\ pc \in {"loop", "done"} /\ stats # NoStats) =>
        /\ FlatAt72(MeanOf(AqiOfAll) # NaN)
        /\ WholeTo336
        /\ (Rows(df) <= 72 /\ MeanOf(AqiOfAll) = NaN) =>
              (IsNaN(stats.aqi_trend) /\ forecasts = <<>>)

\* Two records from a three-row history over two weekdays: one on a weekday
\* with rows, one on the fallback, both drawn with zero jitter.
C21_Witness ==
    /\ SimpleReturned
    /\ Rows(df) = 3
    /\ Len(df) = 2
    /\ df[1].aqi # df[2].aqi
    /\ Len(result) = 2
    /\ jit[1][1] = Num(0) /\ jit[2][1] = Num(0)
    /\ AqiOfDow(result[1].date % 7) # <<>>
    /\ AqiOfDow(result[2].date % 7) = <<>>
    /\ result[1].aqi # result[2].aqi

\* A history of 73 rows, all inside the 336-row window, with a trend.
C21_WholeReached ==
    /\ SimpleReturned
    /\ Rows(df) = 73
    /\ stats.recent = df
    /\ ~IsNaN(stats.aqi_trend)
    /\ stats.aqi_trend # Num(0)

\* The hour a datetime stands for, counted from a fixed origin.
Stamp(dt) == ToOrdinal(DateOf(dt)) * 24 + dt[4]

\* The chunks asked for so far: the first starts at start_date, each starts
\* where the one before ended, each ends after it starts, at most one
\* calendar month later and never after end_date; 'current' is the end of
\* the last one; once the function has returned the last one ends at
\* end_date.
ChunksInOrder ==
    /\ chunks # <<>> => chunks[1].start_dt = start_date
    /\ \A k \in 1..Len(chunks) :
          /\ Stamp(chunks[k].start_dt) < Stamp(chunks[k].end_dt)
          /\ Stamp(chunks[k].end_dt) <= Stamp(end_date)
          /\ Stamp(chunks[k].end_dt) - Stamp(chunks[k].start_dt)
                <= 24 * DaysInMonth(chunks[k].start_dt[1], chunks[k].start_dt[2])
          /\ k > 1 => chunks[k].start_dt = chunks[k - 1].end_dt
    /\ ppc = "loop" =>
          current = (IF chunks = <<>> THEN start_date ELSE chunks[Len(chunks)].end_dt)
    /\ (ppc = "returned" /\ Stamp(start_date) < Stamp(end_date)) =>
          (chunks # <<>> /\ chunks[Len(chunks)].end_dt = end_date)

\* C22: the chunk loop of run_feature_pipeline ends for every start_date <
\* end_date: 'current' grows on every pass, whether the fetch gave rows or
\* not; the first chunk starts at start_date, every chunk starts where the
\* one before ended and spans at most one calendar month, and the last
\* chunk ends at end_date, never beyond it.
C22_ChunkLoopTerminates ==
    /\ []ChunksInOrder
    /\ [][(ppc = "loop" /\ ppc' = "loop") => Stamp(current) < Stamp(current')]_vars
    /\ (ppc = "loop") ~> (ppc = "returned")

\* A run from a 31st: the second chunk starts on the leap day, its fetch
\* gives nothing, and the third chunk is cut at end_date.
C22_Witness ==
    /\ ppc = "returned"
    /\ start_date = <<2024, 1, 31, 0>>
    /\ Len(chunks) = 3
    /\ chunks[2].start_dt = <<2024, 2, 29, 0>>
    /\ chunks[2].df_chunk = <<>>
    /\ chunks[3].start_dt = <<2024, 3, 29, 0>>
    /\ chunks[3].end_dt = end_date
    /\ Stamp(chunks[3].end_dt) < Stamp(RelativeMonth(chunks[3].start_dt))

RECURSIVE RowsFetched(_)
\* The rows the first k calls of fetch_open_meteo_chunk returned, in call
\* order (a call that returned the empty frame adds none).
RowsFetched(k) ==
    IF k = 0 THEN <<>> ELSE RowsFetched(k - 1) \o chunks[k].df_chunk

Successful == {k \in 1..Len(chunks) : chunks[k].df_chunk # <<>>}

\* The kept frames are the non-empty frames fetched, in fetch order.
FramesKept ==
    /\ Len(frames) = Cardinality(Successful)
    /\ \A i \in 1..Len(frames) :
          \E k \in Successful :
              /\ frames[i] = chunks[k].df_chunk
              /\ Cardinality({j \in Successful : j <= k}) = i

\* C23: a chunk whose fetch gives the empty frame is skipped, not asked for
\* again, and the chunks after it are still fetched; the parquet file is
\* written if and only if some chunk gave rows, and then holds the rows of
\* the chunks that gave rows, in fetch order; when every chunk fails the
\* function returns and writes nothing.
C23_EmptyChunksSkipped ==
    /\ FramesKept
    /\ \A k \in 1..Len(chunks) :
          /\ \A j \in 1..(k - 1) : chunks[j].start_dt # chunks[k].start_dt
          /\ (chunks[k].df_chunk = <<>> /\ chunks[k].end_dt # end_date) =>
                /\ ppc = "loop"
                   \/ k < Len(chunks)
                /\ k < Len(chunks) => chunks[k + 1].start_dt = chunks[k].end_dt
    /\ ppc # "returned" => out = NoParquet
    /\ ppc = "returned" =>
          /\ out.written <=> Successful # {}
          /\ Len(out.rows) = Len(RowsFetched(Len(chunks)))
          /\ \A i \in 1..Len(out.rows) :
                /\ out.rows[i].timestamp = RowsFetched(Len(chunks))[i].time
                /\ out.rows[i].weather = RowsFetched(Len(chunks))[i].weather
                /\ out.rows[i].air = RowsFetched(Len(chunks))[i].air

\* Three chunks, the middle one failed: the file holds the first and the
\* third.
C23_Witness ==
    /\ ppc = "returned"
    /\ Len(chunks) = 3
    /\ chunks[1].df_chunk # <<>>
    /\ chunks[2].df_chunk = <<>>
    /\ chunks[3].df_chunk # <<>>
    /\ out.written
    /\ Len(out.rows) = 2
    /\ out.rows[2].timestamp = chunks[3].df_chunk[1].time

\* The configured year with every chunk failed: returned, nothing written.
C23_NothingWritten ==
    /\ ppc = "returned"
    /\ Len(chunks) = 12
    /\ Successful = {}
    /\ out = NoParquet

\* The days chunk k asked the servers for: start_date to end_date of its
\* request, both included.
Requested(k) ==
    ToOrdinal(DateOf(chunks[k].start_dt))..ToOrdinal(DateOf(chunks[k].end_dt))

\* The days whose hourly rows run i of the saved table holds.
SavedDays(i) == out.rows[i].timestamp[1]..out.rows[i].timestamp[2]

\* C24: the date ranges requested for distinct chunks are pairwise disjoint:
\* no calendar day is fetched in two chunks and no hourly timestamp is held
\* more than once in the saved feature table.
C24_ChunkRangesDisjoint ==
    /\ \A j \in 1..Len(chunks) : \A k \in (j + 1)..Len(chunks) :
          Requested(j) \cap Requested(k) = {}
    /\ \A i \in 1..Len(out.rows) : \A j \in (i + 1)..Len(out.rows) :
          SavedDays(i) \cap SavedDays(j) = {}

\* What the code does: a chunk and the next both ask for the day the first
\* ends on, chunks further apart share no day, and the saved table holds
\* the hours of a day twice when two successive chunks both gave rows.
C24_BoundaryDayShared ==
    /\ \A j \in 1..Len(chunks) : \A k \in (j + 1)..Len(chunks) :
          Requested(j) \cap Requested(k)
            = IF k = j + 1 THEN {ToOrdinal(DateOf(chunks[j].end_dt))} ELSE {}
    /\ \A k \in 1..(Len(chunks) - 1) :
          (ppc = "returned" /\ chunks[k].df_chunk # <<>> /\ chunks[k + 1].df_chunk # <<>>) =>
              \E i \in 1..Len(out.rows) : \E j \in (i + 1)..Len(out.rows) :
                  ToOrdinal(DateOf(chunks[k].end_dt)) \in SavedDays(i) \cap SavedDays(j)

\* The configured year, every fetch answered: 2024-02-01 is in the first
\* two saved runs.
C24_ConfiguredYearSaved ==
    /\ ppc = "returned"
    /\ start_date = Configured[1] /\ end_date = Configured[2]
    /\ Len(out.rows) = 12
    /\ ToOrdinal(<<2024, 2, 1>>) \in SavedDays(1) \cap SavedDays(2)

\* The days a response's 'hourly' lists cover.
Listed(resp) == IF HasHourly(resp) THEN resp.from..resp.to ELSE {}

\* The frame is the outer merge of the two responses' rows, sorted by time:
\* its runs are in time order and share no day, it has the days either
\* response lists and no other, and a day's weather (air-quality) columns
\* are filled exactly when the weather (air-quality) response lists the day.
MergedOfBoth ==
    /\ HasHourly(w_resp) /\ HasHourly(a_resp)
    /\ \A i \in 1..Len(fetched) :
          /\ fetched[i].time[1] <= fetched[i].time[2]
          /\ i > 1 => fetched[i - 1].time[2] < fetched[i].time[1]
          /\ \A d \in fetched[i].time[1]..fetched[i].time[2] :
                /\ fetched[i].weather <=> d \in Listed(w_resp)
                /\ fetched[i].air <=> d \in Listed(a_resp)
    /\ Times(fetched) = Listed(w_resp) \cup Listed(a_resp)
    /\ Listed(w_resp) = Listed(a_resp) =>
          \A i \in 1..Len(fetched) : fetched[i].weather /\ fetched[i].air

\* What is returned is the empty frame or the merge of both responses, and
\* the empty frame whenever a request fails, a body is not JSON or a
\* response has no 'hourly'.
EmptyOrMerged ==
    /\ fetched = <<>> \/ MergedOfBoth
    /\ (\/ w_resp.kind \in {"fail", "notjson", "error"}
        \/ a_resp.kind \in {"fail", "notjson", "error", "unsent"}) =>
          fetched = <<>>

C25_OneSourceReached ==
    /\ fpc = "returned"
    /\ w_resp.kind = "hourly" /\ a_resp.kind = "error"
    /\ Listed(w_resp) # {}
    /\ fetched = <<>>

\* The air-quality response lists the first day only: the later days are
\* kept, their air-quality columns NaN.
C25_OuterReached ==
    /\ fpc = "returned"
    /\ w_resp.kind = "hourly" /\ a_resp.kind = "short"
    /\ Len(fetched) = 2
    /\ fetched[1].air /\ ~fetched[2].air /\ fetched[2].weather

====
